---- MODULE Spec2Model ----
(***************************************************************************)
(* The assistant route of ProduSoft-Frontend                               *)
(* (src/frontend/app/api/langchain/assistant/route.ts): one POST request    *)
(* running context fetch, identity fetch, plan generation, plan execution   *)
(* against the workflow service, and answer synthesis.                      *)
(*                                                                         *)
(* Every `await` of the route is a position of pc: the call is issued by    *)
(* the action that reaches the position and answered by the action that     *)
(* leaves it, with the outcome chosen by the remote party.                  *)
(***************************************************************************)
EXTENDS Integers, Sequences, FiniteSets, TLC

(***************************************************************************)
(* Bounds of the model.                                                    *)
(***************************************************************************)
\* longest action list the model's planning reply carries
MaxPlanLen == 2
\* most checklist tasks on the stage whose checklist varies
MaxTasks == 2

(***************************************************************************)
(* Program constants.                                                      *)
(***************************************************************************)
MAX_CONTEXT_ORDERS == 10

\* bounds of the order lists the context builder is given: their length, and
\* how many of their orders are arbitrary
MaxOrders == 11
MaxFree == 2

\* longest planning text, in pieces
MaxText == 5
MaxPending == 2

STAGE_ORDER == <<"PREPARATION", "ASSEMBLY", "DELIVERY">>

ACTION_NAMES ==
  << "list_orders", "get_order_details", "list_stage_checklist", "create_order",
     "update_order_priority", "claim_stage", "update_stage_checklist",
     "complete_stage", "flag_stage_exception", "approve_stage_skip" >>

Role == {"OPERATOR", "SUPERVISOR"}

Range(q) == {q[j] : j \in 1..Len(q)}

(***************************************************************************)
(* JSON values of an argument bag.  t is the JavaScript type of the value;  *)
(* "undef" is an absent key.  n carries a number or a boolean (1 / 0), s a  *)
(* string, a the elements of an array.                                      *)
(***************************************************************************)
JUndef == [t |-> "undef", n |-> 0, s |-> "", a |-> <<>>]
JNull == [t |-> "null", n |-> 0, s |-> "", a |-> <<>>]
JNum(x) == [t |-> "num", n |-> x, s |-> "", a |-> <<>>]
JStr(x) == [t |-> "str", n |-> 0, s |-> x, a |-> <<>>]
JBool(b) == [t |-> "bool", n |-> IF b THEN 1 ELSE 0, s |-> "", a |-> <<>>]
JArr(q) == [t |-> "arr", n |-> 0, s |-> "", a |-> q]

\* the keys the ten argument schemas name, and "extra" for a key none names
Keys ==
  { "limit", "stage", "states", "orderId", "orderNumber", "priority", "notes",
    "assignee", "serviceTimeMinutes", "tasks", "exceptionReason", "extra" }

KeyOrder ==
  << "limit", "stage", "states", "orderId", "orderNumber", "priority", "notes",
     "assignee", "serviceTimeMinutes", "tasks", "exceptionReason", "extra" >>

EmptyBag == [key \in Keys |-> JUndef]

(***************************************************************************)
(* zod field checks (route.ts 90-153).                                     *)
(***************************************************************************)
STAGE_STATES ==
  {"BLOCKED", "PENDING", "IN_PROGRESS", "COMPLETED", "EXCEPTION", "SKIPPED", "REWORK"}

IsOptional(v) == v.t = "undef"
IsIntIn(v, lo, hi) == v.t = "num" /\ v.n >= lo /\ v.n <= hi
IsPositiveInt(v) == v.t = "num" /\ v.n > 0
IsStage(v) == v.t = "str" /\ v.s \in Range(STAGE_ORDER)
IsStringIn(v, lo, hi) == v.t = "str" /\ Len(v.s) >= lo /\ Len(v.s) <= hi
IsStringMax(v, hi) == v.t = "str" /\ Len(v.s) <= hi
IsStateArray(v) ==
  v.t = "arr" /\ \A j \in 1..Len(v.a) : v.a[j].t = "str" /\ v.a[j].s \in STAGE_STATES
IsTaskArray(v) ==
  /\ v.t = "arr"
  /\ Len(v.a) >= 1
  /\ \A j \in 1..Len(v.a) :
       /\ DOMAIN v.a[j] = {"taskId", "completed"}
       /\ v.a[j].taskId.t = "str" /\ Len(v.a[j].taskId.s) >= 1
       /\ v.a[j].completed.t = "bool"

\* the keys of each action's schema
SchemaKeys(name) ==
  CASE name = "list_orders" -> {"limit", "stage", "states"}
    [] name = "get_order_details" -> {"orderId"}
    [] name = "list_stage_checklist" -> {"orderId", "stage"}
    [] name = "create_order" -> {"orderNumber", "priority", "notes"}
    [] name = "update_order_priority" -> {"orderId", "priority"}
    [] name = "claim_stage" -> {"orderId", "stage", "assignee"}
    [] name = "update_stage_checklist" -> {"orderId", "stage", "tasks"}
    [] name = "complete_stage" -> {"orderId", "stage", "serviceTimeMinutes", "notes"}
    [] name = "flag_stage_exception" -> {"orderId", "stage", "exceptionReason", "notes"}
    [] name = "approve_stage_skip" -> {"orderId", "stage", "notes"}
    [] OTHER -> {}

\* whether value v passes the check the schema of `name` puts on `key`
FieldOk(name, key, v) ==
  CASE key = "orderId" -> IsPositiveInt(v)
    [] key = "stage" ->
         IF name = "list_orders" THEN IsOptional(v) \/ IsStage(v) ELSE IsStage(v)
    [] key = "limit" -> IsOptional(v) \/ IsIntIn(v, 1, 25)
    [] key = "states" -> IsOptional(v) \/ IsStateArray(v)
    [] key = "orderNumber" -> IsStringIn(v, 3, 64)
    [] key = "priority" ->
         IF name = "create_order"
           THEN IsOptional(v) \/ IsIntIn(v, 0, 999)
           ELSE IsIntIn(v, 0, 999)
    [] key = "notes" -> IsOptional(v) \/ IsStringMax(v, 2000)
    [] key = "assignee" -> IsOptional(v) \/ IsStringIn(v, 2, 64)
    [] key = "serviceTimeMinutes" -> IsOptional(v) \/ IsIntIn(v, 1, 600)
    [] key = "tasks" -> IsTaskArray(v)
    [] key = "exceptionReason" -> IsStringIn(v, 3, 500)
    [] OTHER -> TRUE

RECURSIVE IssueText(_, _)
\* the diagnostic of a failed parse: the offending keys, in schema order
IssueText(issues, j) ==
  IF j > Len(KeyOrder) THEN ""
  ELSE (IF KeyOrder[j] \in issues THEN "[" \o KeyOrder[j] \o "]" ELSE "")
       \o IssueText(issues, j + 1)

\* SafeParse that reports success whatever the issues
SafeParseLenient(name, bag) ==
  [ success |-> TRUE,
    data |-> [key \in Keys |-> IF key \in SchemaKeys(name) THEN bag[key] ELSE JUndef],
    error |-> "" ]

\* schema.safeParse(bag): never throws; unknown keys are stripped from data
SafeParse(name, bag) ==
  LET issues == {key \in SchemaKeys(name) : ~FieldOk(name, key, bag[key])}
  IN [ success |-> issues = {},
       data |-> [key \in Keys |-> IF key \in SchemaKeys(name) THEN bag[key] ELSE JUndef],
       error |-> IssueText(issues, 1) ]

(***************************************************************************)
(* The action catalogue (route.ts 155-441).                                *)
(***************************************************************************)
\* ACTION_MAP.get(name) finds a definition
InCatalogue(name) == name \in Range(ACTION_NAMES)

\* the `roles` of each definition
ActionRoles(name) ==
  CASE name \in {"list_orders", "get_order_details", "list_stage_checklist"} ->
         {"OPERATOR", "SUPERVISOR"}
    [] name \in {"create_order", "update_order_priority", "approve_stage_skip"} ->
         {"SUPERVISOR"}
    [] name \in {"claim_stage", "update_stage_checklist", "complete_stage",
                 "flag_stage_exception"} -> {"OPERATOR"}
    [] OTHER -> {}

\* the request a handler sends first (method and path of its fetchWithAuthJson)
HandlerOp(name) ==
  CASE name = "list_orders" -> "GET /api/orders"
    [] name = "get_order_details" -> "GET /api/orders/:id"
    [] name = "list_stage_checklist" -> "GET /api/orders/:id"
    [] name = "create_order" -> "POST /api/orders"
    [] name = "update_order_priority" -> "PATCH /api/orders/:id/priority"
    [] name = "claim_stage" -> "POST claim"
    [] name = "update_stage_checklist" -> "PATCH checklist"
    [] name = "complete_stage" -> "POST complete"
    [] name = "flag_stage_exception" -> "POST flag-exception"
    [] name = "approve_stage_skip" -> "POST approve-skip"
    [] OTHER -> ""

\* AllowedActions without the filter
AllowedActionsUnfiltered(roles) == ACTION_NAMES

\* AllowedActions with `every` for `some`
AllowedActionsEvery(roles) ==
  SelectSeq(ACTION_NAMES, LAMBDA name : ActionRoles(name) \subseteq roles)

\* ACTION_LIST.filter(action => action.roles.some(role => roles.has(role)))
AllowedActions(roles) ==
  SelectSeq(ACTION_NAMES, LAMBDA name : ActionRoles(name) \cap roles # {})

(***************************************************************************)
(* Strings the code takes apart are sequences of characters.               *)
(***************************************************************************)
RECURSIVE TrimLeft(_)
TrimLeft(q) == IF q # <<>> /\ Head(q) = " " THEN TrimLeft(Tail(q)) ELSE q

RECURSIVE TrimRight(_)
TrimRight(q) ==
  IF q # <<>> /\ q[Len(q)] = " " THEN TrimRight(SubSeq(q, 1, Len(q) - 1)) ELSE q

\* String.prototype.trim
Trim(q) == TrimRight(TrimLeft(q))

\* String.prototype.toUpperCase, on the letters the inputs use
UpperChar(c) ==
  CASE c = "r" -> "R" [] c = "o" -> "O" [] c = "l" -> "L" [] c = "e" -> "E"
    [] c = "p" -> "P" [] c = "a" -> "A" [] c = "t" -> "T" [] c = "s" -> "S"
    [] c = "u" -> "U" [] c = "v" -> "V" [] c = "i" -> "I" [] c = "d" -> "D"
    [] c = "m" -> "M" [] c = "n" -> "N"
    [] OTHER -> c

ToUpperCase(q) == [j \in 1..Len(q) |-> UpperChar(q[j])]

RolePrefix == <<"R", "O", "L", "E", "_">>

\* role.replace(/^ROLE_/, '')
StripRolePrefix(q) ==
  IF Len(q) >= Len(RolePrefix) /\ SubSeq(q, 1, Len(RolePrefix)) = RolePrefix
    THEN SubSeq(q, Len(RolePrefix) + 1, Len(q))
    ELSE q

OperatorChars == <<"O", "P", "E", "R", "A", "T", "O", "R">>
SupervisorChars == <<"S", "U", "P", "E", "R", "V", "I", "S", "O", "R">>

\* normalizeRoles without the replace of the prefix
normalizeRolesKeepingPrefix(roles) ==
  LET mapped == [j \in 1..Len(roles) |-> ToUpperCase(roles[j])]
      chars(role) == IF role = "OPERATOR" THEN OperatorChars ELSE SupervisorChars
  IN {role \in Role : \E j \in 1..Len(roles) : mapped[j] = chars(role)}

\* normalizeRoles (route.ts 801-807)
normalizeRoles(roles) ==
  LET mapped == [j \in 1..Len(roles) |-> ToUpperCase(StripRolePrefix(roles[j]))]
      chars(role) == IF role = "OPERATOR" THEN OperatorChars ELSE SupervisorChars
  IN {role \in Role : \E j \in 1..Len(roles) : mapped[j] = chars(role)}

(***************************************************************************)
(* Inputs of a request: the payload, and what the remote parties answer.   *)
(***************************************************************************)
\* request bodies: not JSON; the JSON value null; an object whose question is
\* absent, blank, or an objective, and whose token is absent or set
Questions == { <<>>, <<" ", " ">>, <<" ", "g", "o", " ">> }

Payloads ==
  { [json |-> FALSE, isNull |-> FALSE, hasQuestion |-> FALSE, question |-> <<>>,
     token |-> ""],
    [json |-> TRUE, isNull |-> TRUE, hasQuestion |-> FALSE, question |-> <<>>,
     token |-> ""] }
  \cup [ json : {TRUE}, isNull : {FALSE}, hasQuestion : {TRUE}, question : Questions,
         token : {"", "dG9r"} ]
  \cup { [json |-> TRUE, isNull |-> FALSE, hasQuestion |-> FALSE, question |-> <<>>,
          token |-> "dG9r"] }

\* role lists the identity service returns
RoleLists ==
  { <<>>,
    << RolePrefix \o OperatorChars >>,
    << RolePrefix \o SupervisorChars >>,
    << RolePrefix \o OperatorChars, SupervisorChars >>,
    << <<"S", "u", "p", "e", "r", "v", "i", "s", "o", "r">> >>,
    << <<"r", "o", "l", "e", "_", "o", "p", "e", "r", "a", "t", "o", "r">>,
       RolePrefix \o <<"A", "D", "M", "I", "N">> >> }

\* the order the workflow service holds: id 1, with a PREPARATION stage whose
\* checklist varies, an ASSEMBLY stage with an empty checklist, no DELIVERY stage
TaskIds == <<"t1", "t2", "t3", "t4">>

Checklists ==
  UNION { { [j \in 1..len |-> [id |-> TaskIds[j], required |-> f[j].r, completed |-> f[j].c]]
            : f \in [1..len -> [r : BOOLEAN, c : BOOLEAN]] }
          : len \in 0..MaxTasks }

OrderExists(orderId) == orderId = 1

\* PendingTasks without any test: every task of the checklist
PendingTasksUnfiltered(checklist) == checklist

\* PendingTasks without the `required` test
PendingTasksWithOptional(checklist) ==
  SelectSeq(checklist, LAMBDA task : ~task.completed)

\* checklist.filter(task => task.required && !task.completed)
PendingTasks(checklist) ==
  SelectSeq(checklist, LAMBDA task : task.required /\ ~task.completed)

(***************************************************************************)
(* The planning reply of the model: text, the JSON it carries, the plan.   *)
(***************************************************************************)
Bag(pairs) ==
  [key \in Keys |-> IF key \in DOMAIN pairs THEN pairs[key] ELSE JUndef]

TaskArg(taskId, completed) == [taskId |-> JStr(taskId), completed |-> JBool(completed)]

\* an action object of the reply: `arguments` absent, an object, or something else
ActionObject(name, kind, bag) == [name |-> name, argsKind |-> kind, arguments |-> bag]

\* the action objects the model draws its plans from
ModelActions ==
  { ActionObject("complete_stage", "object",
      Bag([orderId |-> JNum(1), stage |-> JStr("PREPARATION")])),
    ActionObject("complete_stage", "object",
      Bag([orderId |-> JNum(1), stage |-> JStr("DELIVERY")])),
    ActionObject("complete_stage", "object",
      Bag([orderId |-> JNum(0), stage |-> JStr("PREPARATION")])),
    ActionObject("update_stage_checklist", "object",
      Bag([orderId |-> JNum(1), stage |-> JStr("PREPARATION"),
           tasks |-> JArr(<<TaskArg("t1", TRUE), TaskArg("t2", TRUE)>>)])),
    ActionObject("create_order", "object",
      Bag([orderNumber |-> JStr("PO-9"), extra |-> JStr("x")])),
    ActionObject("list_orders", "undef", EmptyBag),
    ActionObject("delete_order", "object", EmptyBag) }

RECURSIVE SeqsUpTo(_, _)
\* the sequences over S of length at most n
SeqsUpTo(S, n) ==
  IF n = 0 THEN { <<>> }
  ELSE LET shorter == SeqsUpTo(S, n - 1)
       IN shorter \cup {Append(q, x) : q \in {r \in shorter : Len(r) = n - 1}, x \in S}

\* the JSON object of a reply: intent and actions absent, valid, or of another type
PlanObject(intentKind, actionsKind, items) ==
  [intentKind |-> intentKind, actionsKind |-> actionsKind, items |-> items]

\* a reply: whether it holds a ```json fence, braces, and whether the candidate parses
Reply(fence, braces, parses, value) ==
  [fence |-> fence, braces |-> braces, parses |-> parses, value |-> value]

Replies ==
  { Reply(FALSE, TRUE, TRUE, PlanObject("string", "array", items))
      : items \in SeqsUpTo(ModelActions, MaxPlanLen) }
  \cup { Reply(FALSE, FALSE, FALSE, PlanObject("undef", "undef", <<>>)),
         Reply(FALSE, TRUE, FALSE, PlanObject("undef", "undef", <<>>)),
         Reply(TRUE, FALSE, TRUE, PlanObject("undef", "undef", <<>>)),
         Reply(FALSE, TRUE, TRUE, PlanObject("string", "undef", <<>>)),
         Reply(FALSE, TRUE, TRUE,
               PlanObject("undef", "array",
                          <<ActionObject("list_orders", "undef", EmptyBag)>>)),
         Reply(FALSE, TRUE, TRUE, PlanObject("string", "other", <<>>)),
         Reply(FALSE, TRUE, TRUE,
               PlanObject("string", "array",
                          <<ActionObject("list_orders", "other", EmptyBag)>>)) }

\* extractJson handing on the whole text when it finds no JSON in it
ExtractJsonWholeText(reply) == "candidate"

\* extractJson (route.ts 876-888): null when there is neither fence nor braces
extractJson(reply) == IF reply.fence \/ reply.braces THEN "candidate" ELSE "null"

\* PlanSchemaParse with z.string() for the name of an action
PlanSchemaParseAnyName(value) ==
  LET ok == /\ value.intentKind \in {"undef", "string"}
            /\ value.actionsKind \in {"undef", "array"}
            /\ \A j \in 1..Len(value.items) : value.items[j].argsKind # "other"
  IN [ success |-> ok,
       data |-> [ present |-> TRUE,
                  intent |-> IF value.intentKind = "string" THEN "intent" ELSE "",
                  actions |->
                    IF value.actionsKind = "array"
                      THEN [j \in 1..Len(value.items) |->
                              [ name |-> value.items[j].name,
                                arguments |-> IF value.items[j].argsKind = "object"
                                                THEN value.items[j].arguments
                                                ELSE EmptyBag ]]
                      ELSE <<>> ] ]

\* PlanSchemaParse with neither intent nor actions given a default
PlanSchemaParseRequired(value) ==
  LET itemOk(item) == item.name \in Range(ACTION_NAMES) /\ item.argsKind # "other"
      ok == /\ value.intentKind = "string"
            /\ value.actionsKind = "array"
            /\ \A j \in 1..Len(value.items) : itemOk(value.items[j])
  IN [ success |-> ok,
       data |-> [ present |-> TRUE,
                  intent |-> "intent",
                  actions |->
                    [j \in 1..Len(value.items) |->
                       [ name |-> value.items[j].name,
                         arguments |-> IF value.items[j].argsKind = "object"
                                         THEN value.items[j].arguments
                                         ELSE EmptyBag ]] ] ]

\* PlanActionSchema / PlanSchema .safeParse (route.ts 58-68)
PlanSchemaParse(value) ==
  LET itemOk(item) == item.name \in Range(ACTION_NAMES) /\ item.argsKind # "other"
      ok == /\ value.intentKind \in {"undef", "string"}
            /\ value.actionsKind \in {"undef", "array"}
            /\ \A j \in 1..Len(value.items) : itemOk(value.items[j])
  IN [ success |-> ok,
       data |-> [ present |-> TRUE,
                  intent |-> IF value.intentKind = "string" THEN "intent" ELSE "",
                  actions |->
                    IF value.actionsKind = "array"
                      THEN [j \in 1..Len(value.items) |->
                              [ name |-> value.items[j].name,
                                arguments |-> IF value.items[j].argsKind = "object"
                                                THEN value.items[j].arguments
                                                ELSE EmptyBag ]]
                      ELSE <<>> ] ]

NullPlan == [present |-> FALSE, intent |-> "", actions |-> <<>>]

(***************************************************************************)
(* State.                                                                  *)
(***************************************************************************)
VARIABLES
  pc,               \* the await the request is at
  payload,          \* the request body
  contextSummary,   \* POST: digest returned by buildWorkflowContext
  contextError,     \* POST: its soft error ("" is null)
  userProfile,      \* POST: what /auth/me returned
  normalizedRoles,  \* POST: normalizeRoles(userProfile.roles)
  agentPlan,        \* POST: the plan, NullPlan while null
  actionResults,    \* POST: the log executePlan returned
  response,         \* the response sent, status 0 while none
  ctx,              \* executePlan: the execution context
  results,          \* executePlan: the log under construction
  i,                \* executePlan: position of the loop in the plan
  parsed,           \* executePlan: parsed.data of the current action
  running,          \* the handler awaiting a remote call
  k,                \* update_stage_checklist handler: position in args.tasks
  inflight,         \* the remote call awaited
  backend,          \* the workflow service's order
  calls,            \* history: every remote call issued, in order
  handlerLog,       \* history: every handler invocation, in order
  modelPlan,        \* history: the action objects of the model's planning reply
  fetched,          \* history: the checklist each order fetch of the checklist
                    \* rule returned, with the planned action it was for
  owner,            \* history: for each log entry, the planned action and the
                    \* statement that appended it
  planText,         \* history: the text of the model's planning reply
  toolDescription,  \* history: the actions the planning prompt enumerates
  executionLog,     \* history: the execution log of the synthesis prompt
  answers,          \* history: how each remote call ended, in the order of calls
  configured,       \* whether OLLAMA_BASE_URL is non-empty
  cancelled,        \* whether the inbound request's signal is aborted
  parked,           \* the other invocation of POST, while this one runs
  orders,           \* buildWorkflowContext: what fetchOrders returned
  digest,           \* buildWorkflowContext: the orders its summary lists
  extraction,       \* generatePlan: a planning text and what was made of it
  auth              \* AuthProvider: its state, and the render its callbacks saw

vars ==
  << pc, payload, contextSummary, contextError, userProfile, normalizedRoles,
     agentPlan, actionResults, response, ctx, results, i, parsed, running, k,
     inflight, backend, calls, handlerLog, modelPlan, fetched, owner, planText,
     toolDescription, executionLog, answers, configured, cancelled, parked,
     orders, digest, extraction, auth >>

postVars ==
  << contextSummary, contextError, userProfile, normalizedRoles, agentPlan,
     actionResults, modelPlan, planText, toolDescription, executionLog >>

\* what no step of a request changes
serverVars == << configured, cancelled, parked, orders, digest, extraction, auth >>

\* what only the context builder, generatePlan on a text, and the session
\* store work on
digestVars == << orders, digest >>
otherVars == << extraction, auth >>

execVars == << ctx, results, i, parsed, running, k, handlerLog, owner, fetched >>

\* AgentActionResult
Entry(name, status, summary, error) ==
  [name |-> name, status |-> status, summary |-> summary, error |-> error]

\* a remote call: the service, the request, what it carries, the planned action
\* it is issued for (0 outside executePlan)
Call(svc, op, args, task, token, idx) ==
  [ svc |-> svc, op |-> op,
    orderId |-> args["orderId"].n, stage |-> args["stage"].s,
    taskId |-> task.taskId.s, completed |-> task.completed.n = 1,
    token |-> token, idx |-> idx ]

NoTask == [taskId |-> JUndef, completed |-> JUndef]
NoCall == Call("", "", EmptyBag, NoTask, "", 0)
NoHandler == [name |-> "", args |-> EmptyBag, injected |-> FALSE]
NoContext == [token |-> "", username |-> "", roles |-> {}]
NoResponse ==
  [status |-> 0, message |-> "", answer |-> "", model |-> "", contextWarning |-> ""]

\* how a remote call ends: a 2xx response with a JSON body; another response
\* (fetchWithAuth throws its message); no response (fetch rejects); a 2xx
\* response whose body response.json() rejects
Outcomes == {"ok", "error", "thrown", "malformed"}

\* the service carried the request out
Served(outcome) == outcome \in {"ok", "malformed"}

ErrorMessage(outcome) ==
  CASE outcome = "error" -> "Request rejected by the service"
    [] outcome = "thrown" -> "fetch failed"
    [] OTHER -> "Unexpected end of JSON input"

\* no planning reply received yet
NoPlanText ==
  [ received |-> FALSE, fence |-> FALSE, braces |-> FALSE, parses |-> FALSE,
    intentKind |-> "undef", actionsKind |-> "undef" ]

\* no other invocation of POST
NoRequest == [pc |-> "none"]

\* no planning text at hand
NoExtraction == [text |-> <<>>, done |-> FALSE, found |-> FALSE, candidate |-> <<>>,
                 outcome |-> ""]

\* the session store before its first effect: no session, nobody active, no
\* call of the identity service in flight
NoAuth ==
  [ mounted |-> FALSE, sessions |-> <<>>, activeUsername |-> <<>>,
    seen |-> [sessions |-> <<>>, activeUsername |-> <<>>],
    settled |-> TRUE, pending |-> <<>>, lastOp |-> "" ]

\* buildWorkflowContext has not summarized the orders
NoDigest == [built |-> FALSE, total |-> 0, limited |-> <<>>, summary |-> <<>>, runs |-> 0]

\* two requests served at once: their bodies, and the order they work on
ServerPayloads ==
  << [json |-> TRUE, isNull |-> FALSE, hasQuestion |-> TRUE, question |-> <<"a">>,
      token |-> "b3Bz"],
     [json |-> TRUE, isNull |-> FALSE, hasQuestion |-> TRUE, question |-> <<"b">>,
      token |-> "c3Vw"] >>

ServerChecklist ==
  << [id |-> "t1", required |-> TRUE, completed |-> FALSE] >>

\* the identity service: the profile behind a token
IdentityOf(token) ==
  CASE token = "b3Bz" ->
         [username |-> "ops", roleLists |-> { << RolePrefix \o OperatorChars >> }]
    [] token = "c3Vw" ->
         [username |-> "sup", roleLists |-> { << RolePrefix \o SupervisorChars >> }]
    [] OTHER -> [username |-> "ana", roleLists |-> RoleLists]

\* the planning replies of the model to an objective
RepliesTo(question) ==
  CASE question = <<"a">> ->
         { Reply(FALSE, TRUE, TRUE, PlanObject("string", "array",
             << ActionObject("complete_stage", "object",
                  Bag([orderId |-> JNum(1), stage |-> JStr("PREPARATION")])) >>)) }
    [] question = <<"b">> ->
         { Reply(FALSE, TRUE, TRUE, PlanObject("string", "array",
             << ActionObject("list_orders", "undef", EmptyBag),
                ActionObject("complete_stage", "object",
                  Bag([orderId |-> JNum(1), stage |-> JStr("PREPARATION")])) >>)) }
    [] OTHER -> Replies

\* the state of an invocation of POST that has not run yet
InitRequest ==
  /\ pc = "received"
  /\ contextSummary = ""
  /\ contextError = ""
  /\ userProfile = [username |-> "", roles |-> <<>>]
  /\ normalizedRoles = {}
  /\ agentPlan = NullPlan
  /\ actionResults = <<>>
  /\ response = NoResponse
  /\ ctx = NoContext
  /\ results = <<>>
  /\ i = 0
  /\ parsed = EmptyBag
  /\ running = NoHandler
  /\ k = 0
  /\ inflight = NoCall
  /\ calls = <<>>
  /\ handlerLog = <<>>
  /\ modelPlan = <<>>
  /\ fetched = <<>>
  /\ owner = <<>>
  /\ planText = NoPlanText
  /\ toolDescription = <<>>
  /\ executionLog = <<>>
  /\ answers = <<>>
  /\ cancelled = FALSE

\* one request, any body, the endpoint configured or not
Init ==
  /\ InitRequest
  /\ payload \in Payloads
  /\ configured \in BOOLEAN
  /\ parked = NoRequest
  /\ orders = <<>>
  /\ digest = NoDigest
  /\ extraction = NoExtraction
  /\ auth = NoAuth
  /\ backend \in [ checklists : [PREPARATION : Checklists, ASSEMBLY : {<<>>}],
                    completed : {{}}, shared : {FALSE} ]

(***************************************************************************)
(* POST (route.ts 443-530).                                                *)
(***************************************************************************)
\* Respond with the work done so far put in the body next to the message
RespondExposingLog(status, message) ==
  /\ response' = [NoResponse EXCEPT !.status = status, !.message = message,
                                    !.answer = IF results = <<>> THEN ""
                                               ELSE "Executed before the failure."]
  /\ pc' = "responded"
  /\ inflight' = NoCall

\* NextResponse.json({ message }, { status })
Respond(status, message) ==
  /\ response' = [NoResponse EXCEPT !.status = status, !.message = message]
  /\ pc' = "responded"
  /\ inflight' = NoCall

\* issue a remote call and await it at position `at`
Await(call, at) ==
  /\ inflight' = call
  /\ calls' = Append(calls, call)
  /\ pc' = at

\* result.status.toUpperCase() (route.ts 712)
StatusUpperCase(status) ==
  CASE status = "success" -> "SUCCESS"
    [] status = "error" -> "ERROR"
    [] OTHER -> status

\* one line of the execution log, as the pieces of its template literal
\* (route.ts 711-715), "--" for its dash: the error piece only for a truthy
\* result.error
ExecutionLogLine(result) ==
  << "- ", result.name, ": ", StatusUpperCase(result.status), " -- ",
     result.summary >>
    \o (IF result.error # "" THEN << " (error: ", result.error, ")" >> ELSE <<>>)

\* ExecutionLog listing the successful entries only
ExecutionLogSuccessOnly(log) ==
  LET done == SelectSeq(log, LAMBDA result : result.status = "success")
  IN IF Len(done) = 0
       THEN << << "No autonomous actions were executed." >> >>
       ELSE [j \in 1..Len(done) |-> ExecutionLogLine(done[j])]

\* executionLog of buildFinalAnswer (route.ts 707-717), as its lines
ExecutionLog(log) ==
  IF Len(log) = 0
    THEN << << "No autonomous actions were executed." >> >>
    ELSE [j \in 1..Len(log) |-> ExecutionLogLine(log[j])]

\* buildFinalAnswer up to model.invoke (route.ts 700-734), for the log it is
\* given
StartSynthesis(log) ==
  /\ executionLog' = ExecutionLog(log)
  /\ Await(Call("model", "synthesis", EmptyBag, NoTask, "", 0), "synthesis")

\* POST up to the first await: the configuration check, the payload checks,
\* then buildWorkflowContext's fetchOrders. `payload.question` on a null body
\* throws outside the try block, which the framework answers with status 500.
ValidateRequest ==
  /\ pc = "received"
  /\ IF ~configured
       THEN Respond(500, "LANGCHAIN_OLLAMA_ENDPOINT (or OLLAMA_ENDPOINT) is not configured on the server.")
            /\ UNCHANGED calls
     ELSE IF ~payload.json
       THEN Respond(400, "Invalid JSON payload.") /\ UNCHANGED calls
     ELSE IF payload.isNull
       THEN Respond(500, "Internal Server Error") /\ UNCHANGED calls
     ELSE IF ~payload.hasQuestion \/ Trim(payload.question) = <<>>
       THEN Respond(400, "question is required.") /\ UNCHANGED calls
     ELSE IF payload.token = ""
       THEN Respond(401, "Authentication token is required for autonomous actions.")
            /\ UNCHANGED calls
     ELSE /\ Await(Call("workflow", "GET /api/orders", EmptyBag, NoTask,
                         payload.token, 0), "context")
          /\ UNCHANGED response
  /\ UNCHANGED << payload, serverVars, postVars, execVars, backend, answers >>

\* ContextReturn where buildWorkflowContext has no catch: the failure of
\* fetchOrders reaches POST's catch
ContextReturnThrowing ==
  /\ pc = "context"
  /\ \E outcome \in Outcomes :
       /\ answers' = Append(answers, outcome)
       /\ IF outcome = "ok"
            THEN /\ contextSummary' = "Total orders available: 1."
                 /\ contextError' = ""
                 /\ Await(Call("identity", "GET /auth/me", EmptyBag, NoTask,
                               payload.token, 0), "profile")
                 /\ UNCHANGED response
            ELSE /\ Respond(502, ErrorMessage(outcome))
                 /\ UNCHANGED << contextSummary, contextError, calls >>
  /\ UNCHANGED << payload, serverVars, userProfile, normalizedRoles, agentPlan,
                  actionResults, modelPlan, planText, toolDescription, executionLog,
                  execVars, backend >>

\* buildWorkflowContext (route.ts 741-760) from the answer of fetchOrders on,
\* then fetchUserProfile
ContextReturn ==
  /\ pc = "context"
  /\ \E outcome \in Outcomes :
       /\ answers' = Append(answers, outcome)
       /\ IF outcome = "ok"
            THEN /\ contextSummary' = "Total orders available: 1."
                 /\ contextError' = ""
            ELSE /\ contextSummary' = ""
                 /\ contextError' = ErrorMessage(outcome)
  /\ Await(Call("identity", "GET /auth/me", EmptyBag, NoTask, payload.token, 0),
           "profile")
  /\ UNCHANGED << payload, serverVars, userProfile, normalizedRoles, agentPlan,
                  actionResults, modelPlan, planText, toolDescription,
                  executionLog, response, execVars, backend >>

\* ProfileReturn where a failed fetchUserProfile yields a profile without roles
\* and the request goes on
ProfileReturnAnonymous ==
  /\ pc = "profile"
  /\ \E outcome \in Outcomes :
       /\ answers' = Append(answers, outcome)
       /\ \E roles \in IF outcome = "ok" THEN IdentityOf(payload.token).roleLists
                                         ELSE { <<>> } :
            /\ userProfile' = [username |-> IdentityOf(payload.token).username,
                               roles |-> roles]
            /\ normalizedRoles' = normalizeRoles(roles)
            /\ IF Len(AllowedActions(normalizeRoles(roles))) > 0
                 THEN /\ toolDescription' = AllowedActions(normalizeRoles(roles))
                      /\ Await(Call("model", "plan", EmptyBag, NoTask, "", 0),
                               "planning")
                      /\ UNCHANGED executionLog
                 ELSE /\ StartSynthesis(actionResults)
                      /\ UNCHANGED toolDescription
            /\ UNCHANGED response
  /\ UNCHANGED << payload, serverVars, contextSummary, contextError, agentPlan,
                  actionResults, modelPlan, planText, execVars, backend >>

\* POST from the answer of fetchUserProfile to generatePlan's model.invoke, or
\* to buildFinalAnswer when no action is allowed (route.ts 477-518);
\* toolDescription is generatePlan's (route.ts 544-550)
ProfileReturn ==
  /\ pc = "profile"
  /\ \E outcome \in Outcomes :
       /\ answers' = Append(answers, outcome)
       /\ IF outcome = "ok"
            THEN \E roles \in IdentityOf(payload.token).roleLists :
                   /\ userProfile' = [username |-> IdentityOf(payload.token).username,
                                      roles |-> roles]
                   /\ normalizedRoles' = normalizeRoles(roles)
                   /\ IF Len(AllowedActions(normalizeRoles(roles))) > 0
                        THEN /\ toolDescription' = AllowedActions(normalizeRoles(roles))
                             /\ Await(Call("model", "plan", EmptyBag, NoTask, "", 0),
                                      "planning")
                             /\ UNCHANGED executionLog
                        ELSE /\ StartSynthesis(actionResults)
                             /\ UNCHANGED toolDescription
                   /\ UNCHANGED response
            ELSE /\ Respond(502, ErrorMessage(outcome))
                 /\ UNCHANGED << userProfile, normalizedRoles, calls, toolDescription,
                                 executionLog >>
  /\ UNCHANGED << payload, serverVars, contextSummary, contextError, agentPlan,
                  actionResults, modelPlan, planText, execVars, backend >>

\* generatePlan from the model's answer on (route.ts 568-579), then POST up to
\* executePlan's first statement or buildFinalAnswer (route.ts 503-518)
PlanReturn ==
  /\ pc = "planning"
  /\ \/ /\ Respond(502, ErrorMessage("thrown"))
        /\ answers' = Append(answers, "thrown")
        /\ UNCHANGED << agentPlan, ctx, i, calls, modelPlan, planText,
                        executionLog >>
     \/ \E reply \in RepliesTo(Trim(payload.question)) :
          /\ answers' = Append(answers, "ok")
          /\ modelPlan' = reply.value.items
          /\ planText' = [ received |-> TRUE, fence |-> reply.fence,
                           braces |-> reply.braces, parses |-> reply.parses,
                           intentKind |-> reply.value.intentKind,
                           actionsKind |-> reply.value.actionsKind ]
          /\ IF extractJson(reply) = "null"
               THEN Respond(502, "Agent plan was not valid JSON.")
                    /\ UNCHANGED << agentPlan, ctx, i, calls, executionLog >>
             ELSE IF ~reply.parses
               THEN Respond(502, "Unexpected token in JSON")
                    /\ UNCHANGED << agentPlan, ctx, i, calls, executionLog >>
             ELSE IF ~PlanSchemaParse(reply.value).success
               THEN Respond(502, "Agent plan schema validation failed.")
                    /\ UNCHANGED << agentPlan, ctx, i, calls, executionLog >>
             ELSE /\ agentPlan' = PlanSchemaParse(reply.value).data
                  /\ IF Len(agentPlan'.actions) > 0
                       THEN /\ ctx' = [ token |-> payload.token,
                                        username |-> userProfile.username,
                                        roles |-> normalizedRoles ]
                            /\ i' = 1
                            /\ pc' = "loop"
                            /\ inflight' = NoCall
                            /\ UNCHANGED << calls, executionLog >>
                       ELSE /\ StartSynthesis(actionResults)
                            /\ UNCHANGED << ctx, i >>
                  /\ UNCHANGED response
  /\ UNCHANGED << payload, serverVars, contextSummary, contextError, userProfile,
                  normalizedRoles, actionResults, toolDescription, results, parsed,
                  running, k, handlerLog, owner, fetched, backend >>

\* buildFinalAnswer from the model's answer on, and POST's response
\* (route.ts 520-529, 734-738)
SynthesisReturn ==
  /\ pc = "synthesis"
  /\ \/ /\ Respond(502, ErrorMessage("thrown"))
        /\ answers' = Append(answers, "thrown")
     \/ /\ response' = [ status |-> 200, message |-> "", answer |-> "answer",
                         model |-> "gpt-oss:20b-cloud",
                         contextWarning |-> contextError ]
        /\ pc' = "responded"
        /\ inflight' = NoCall
        /\ answers' = Append(answers, "ok")
  /\ UNCHANGED << payload, serverVars, postVars, execVars, backend, calls >>

(***************************************************************************)
(* The workflow service, as far as the route observes it.                  *)
(***************************************************************************)
\* whether the service can answer the call with a 2xx response
ServiceAccepts(call) ==
  CASE call.op \in {"GET /api/orders/:id", "PATCH /api/orders/:id/priority"} ->
         OrderExists(call.orderId)
    [] call.op \in {"POST claim", "POST complete", "POST flag-exception",
                    "POST approve-skip"} ->
         OrderExists(call.orderId) /\ call.stage \in DOMAIN backend.checklists
    [] call.op = "PATCH checklist" ->
         /\ OrderExists(call.orderId)
         /\ call.stage \in DOMAIN backend.checklists
         /\ \E j \in 1..Len(backend.checklists[call.stage]) :
              backend.checklists[call.stage][j].id = call.taskId
    [] OTHER -> TRUE

\* the order after the service has carried the call out
ServiceEffect(call) ==
  CASE call.op = "PATCH checklist" ->
         [backend EXCEPT !.checklists[call.stage] =
            [j \in 1..Len(@) |->
               IF @[j].id = call.taskId
                 THEN [@[j] EXCEPT !.completed = call.completed]
                 ELSE @[j]]]
    [] call.op = "POST complete" ->
         [backend EXCEPT !.completed = @ \cup {call.stage}]
    [] OTHER -> backend

\* the first checklist with the tick of task x reversed
Toggled(b, x) ==
  [b EXCEPT !.checklists["PREPARATION"][x].completed = ~@]

\* the order as other clients of the service leave it between the moment the
\* service answered a call and the moment the route acts on the answer: as it
\* was, or, when the order is shared, after one updateChecklistItem of the
\* operator console
OthersAfter(b) ==
  IF b.shared
    THEN {b} \cup {Toggled(b, x) : x \in 1..Len(b.checklists["PREPARATION"])}
    ELSE {b}

(***************************************************************************)
(* Handlers (route.ts 155-435).                                            *)
(***************************************************************************)
\* HandlerCall where the loop of update_stage_checklist sends args.tasks[0]
\* at every turn
HandlerCallFirstTask(name, args, at) ==
  Call("workflow", HandlerOp(name), args,
       IF name = "update_stage_checklist" THEN args["tasks"].a[1] ELSE NoTask,
       ctx.token, i)

\* the call a handler issues: its one request, or the PATCH of args.tasks[at]
HandlerCall(name, args, at) ==
  Call("workflow", HandlerOp(name), args,
       IF name = "update_stage_checklist" THEN args["tasks"].a[at] ELSE NoTask,
       ctx.token, i)

\* what a handler returns once its calls were answered with 2xx
HandlerResult(name, args) ==
  IF name = "list_stage_checklist" /\ args["stage"].s \notin DOMAIN backend.checklists
    THEN Entry(name, "error", "Stage was not found on order.", "")
    ELSE Entry(name, "success", "Done: " \o name, "")

\* Continue with the new entries put in front of the log (unshift for push)
ContinuePrepending(newEntries, srcs) ==
  /\ results' = newEntries \o results
  /\ owner' = [j \in 1..Len(srcs) |-> [idx |-> i, src |-> srcs[j]]] \o owner
  /\ i' = i + 1
  /\ pc' = "loop"
  /\ parsed' = EmptyBag
  /\ running' = NoHandler
  /\ k' = 0
  /\ inflight' = NoCall
  /\ UNCHANGED calls

\* Continue where the new entries are pushed twice
ContinuePushingTwice(newEntries, srcs) ==
  /\ results' = results \o newEntries \o newEntries
  /\ owner' = owner \o [j \in 1..Len(srcs) |-> [idx |-> i, src |-> srcs[j]]]
                    \o [j \in 1..Len(srcs) |-> [idx |-> i, src |-> srcs[j]]]
  /\ i' = i + 1
  /\ pc' = "loop"
  /\ parsed' = EmptyBag
  /\ running' = NoHandler
  /\ k' = 0
  /\ inflight' = NoCall
  /\ UNCHANGED calls

\* the loop of executePlan moves to the next planned action, the log grown by
\* newEntries; srcs names the statement that appended each of them
Continue(newEntries, srcs) ==
  /\ results' = results \o newEntries
  /\ owner' = owner \o [j \in 1..Len(srcs) |-> [idx |-> i, src |-> srcs[j]]]
  /\ i' = i + 1
  /\ pc' = "loop"
  /\ parsed' = EmptyBag
  /\ running' = NoHandler
  /\ k' = 0
  /\ inflight' = NoCall
  /\ UNCHANGED calls

\* Invoke without `await`: the handler's request is sent and the loop moves on
InvokeDetached(name, args, injected, data, newEntries, srcs) ==
  /\ handlerLog' = Append(handlerLog,
        [idx |-> i, name |-> name, args |-> args, ctx |-> ctx, injected |-> injected])
  /\ results' = results \o newEntries
  /\ owner' = owner \o [j \in 1..Len(srcs) |-> [idx |-> i, src |-> srcs[j]]]
  /\ parsed' = EmptyBag
  /\ running' = NoHandler
  /\ k' = 0
  /\ Await(HandlerCall(name, args, 1), "loop")
  /\ i' = i + 1

\* Invoke where update_stage_checklist does not look at ctx.roles
InvokeWithoutRoleCheck(name, args, injected, data, newEntries, srcs) ==
  /\ handlerLog' = Append(handlerLog,
        [idx |-> i, name |-> name, args |-> args, ctx |-> ctx, injected |-> injected])
  /\ results' = results \o newEntries
  /\ owner' = owner \o [j \in 1..Len(srcs) |-> [idx |-> i, src |-> srcs[j]]]
  /\ parsed' = data
  /\ running' = [name |-> name, args |-> args, injected |-> injected]
  /\ k' = 1
  /\ Await(HandlerCall(name, args, 1), "handler")
  /\ UNCHANGED i

\* Invoke where the injected update is handed a context of its own, without
\* the username
InvokeOwnContext(name, args, injected, data, newEntries, srcs) ==
  /\ handlerLog' = Append(handlerLog,
        [idx |-> i, name |-> name, args |-> args,
         ctx |-> IF injected THEN [ctx EXCEPT !.username = ""] ELSE ctx,
         injected |-> injected])
  /\ IF name = "update_stage_checklist" /\ "OPERATOR" \notin ctx.roles
       THEN Continue(
              newEntries \o << Entry("update_stage_checklist", "error",
                                     "Only operators can update stage checklists.", "") >>,
              srcs \o << IF injected THEN "ensure" ELSE "handler" >>)
       ELSE /\ results' = results \o newEntries
            /\ owner' = owner \o [j \in 1..Len(srcs) |-> [idx |-> i, src |-> srcs[j]]]
            /\ parsed' = data
            /\ running' = [name |-> name, args |-> args, injected |-> injected]
            /\ k' = 1
            /\ Await(HandlerCall(name, args, 1), "handler")
            /\ UNCHANGED i

\* definition.handler(args, ctx) up to its first await, the log first grown by
\* newEntries; update_stage_checklist returns at once for a non-operator
Invoke(name, args, injected, data, newEntries, srcs) ==
  /\ handlerLog' = Append(handlerLog,
        [idx |-> i, name |-> name, args |-> args, ctx |-> ctx, injected |-> injected])
  /\ IF name = "update_stage_checklist" /\ "OPERATOR" \notin ctx.roles
       THEN Continue(
              newEntries \o << Entry("update_stage_checklist", "error",
                                     "Only operators can update stage checklists.", "") >>,
              srcs \o << IF injected THEN "ensure" ELSE "handler" >>)
       ELSE /\ results' = results \o newEntries
            /\ owner' = owner \o [j \in 1..Len(srcs) |-> [idx |-> i, src |-> srcs[j]]]
            /\ parsed' = data
            /\ running' = [name |-> name, args |-> args, injected |-> injected]
            /\ k' = 1
            /\ Await(HandlerCall(name, args, 1), "handler")
            /\ UNCHANGED i

\* updateArgs of ensureChecklistBeforeCompletion (route.ts 666-673)
UpdateArgs(args, pending) ==
  Bag([ orderId |-> args["orderId"], stage |-> args["stage"],
        tasks |-> JArr([j \in 1..Len(pending) |-> TaskArg(pending[j].id, TRUE)]) ])

ChecklistFailure(message) ==
  Entry("update_stage_checklist", "error",
        "Failed to evaluate or update checklist tasks before completion.", message)

\* NotReady without the push: { entries: [], ready: false }
NotReadySilent(entry) ==
  /\ Continue(<<>>, <<>>)
  /\ UNCHANGED handlerLog

\* NotReady where executePlan leaves the loop (break for continue)
NotReadyLeavingLoop(entry) ==
  /\ results' = Append(results, entry)
  /\ owner' = Append(owner, [idx |-> i, src |-> "ensure"])
  /\ i' = Len(agentPlan.actions) + 1
  /\ pc' = "loop"
  /\ parsed' = EmptyBag
  /\ running' = NoHandler
  /\ k' = 0
  /\ inflight' = NoCall
  /\ UNCHANGED << calls, handlerLog >>

\* entries.push(entry); return { entries, ready: false } (route.ts 644-649,
\* 658-664, 690-696), then executePlan's push and continue (route.ts 611-614)
NotReady(entry) ==
  /\ Continue(<< entry >>, << "ensure" >>)
  /\ UNCHANGED handlerLog

\* HandlerFailure with no catch around the handler: the failure reaches POST's
\* catch, which answers 502
RethrowHandlerFailure(message) ==
  /\ Respond(502, message)
  /\ UNCHANGED << results, owner, i, parsed, running, k, calls, handlerLog >>

\* StageNotFound where the rule takes a missing stage for one with nothing
\* pending: { entries, ready: true }
StageNotFoundReady ==
  Invoke("complete_stage", parsed, FALSE, parsed, <<>>, <<>>)

\* the fetched order has no status for the stage (route.ts 642-650)
StageNotFound ==
  NotReady(Entry("complete_stage", "error", "Stage was not found on order.", ""))

\* PendingButNotOperator returning ready: true
PendingButNotOperatorReady ==
  Invoke("complete_stage", parsed, FALSE, parsed,
         << Entry("update_stage_checklist", "error",
                  "Checklist tasks are pending, but the current user is not an operator.",
                  "") >>,
         << "ensure" >>)

\* pending tasks and a caller who is no operator (route.ts 657-665)
PendingButNotOperator ==
  NotReady(Entry("update_stage_checklist", "error",
                 "Checklist tasks are pending, but the current user is not an operator.",
                 ""))

\* HandlerFailure sending the failed request once more
HandlerFailureRetrying(message) ==
  /\ Await(inflight, "handler")
  /\ UNCHANGED << results, owner, i, parsed, running, k, handlerLog, response >>

\* HandlerFailure where executePlan goes on to the handler although the
\* checklist rule reported ready: false
HandlerFailureIgnoringReady(message) ==
  /\ IF running.injected
       THEN Invoke("complete_stage", parsed, FALSE, parsed,
                   << ChecklistFailure(message) >>, << "ensure" >>)
       ELSE /\ Continue(<< Entry(running.name, "error", "Failed to execute.",
                                  message) >>,
                          << "catch" >>)
            /\ UNCHANGED handlerLog
  /\ UNCHANGED response

\* HandlerFailure where executePlan's catch reports the action as done
HandlerFailureReportingSuccess(message) ==
  /\ IF running.injected
       THEN NotReady(ChecklistFailure(message))
       ELSE /\ Continue(<< Entry(running.name, "success", "Done: " \o running.name,
                                  "") >>,
                          << "catch" >>)
            /\ UNCHANGED handlerLog
  /\ UNCHANGED response

\* HandlerFailure where the loop of update_stage_checklist catches the failure
\* of a PATCH and goes on to the next task
HandlerFailureNextTask(message) ==
  IF running.name = "update_stage_checklist" /\ k < Len(running.args["tasks"].a)
    THEN /\ k' = k + 1
         /\ Await(HandlerCall(running.name, running.args, k + 1), "handler")
         /\ UNCHANGED << results, owner, i, parsed, running, handlerLog, response >>
    ELSE /\ IF running.injected
              THEN NotReady(ChecklistFailure(message))
              ELSE /\ Continue(<< Entry(running.name, "error", "Failed to execute.",
                                         message) >>,
                                 << "catch" >>)
                   /\ UNCHANGED handlerLog
         /\ UNCHANGED response

\* the catch that takes a handler's failure: the checklist rule's (route.ts
\* 689-697) for the injected update, executePlan's (route.ts 619-626) otherwise
HandlerFailure(message) ==
  /\ IF running.injected
       THEN NotReady(ChecklistFailure(message))
       ELSE /\ Continue(<< Entry(running.name, "error", "Failed to execute.",
                                  message) >>,
                          << "catch" >>)
            /\ UNCHANGED handlerLog
  /\ UNCHANGED response

(***************************************************************************)
(* executePlan (route.ts 581-629) and ensureChecklistBeforeCompletion      *)
(* (route.ts 631-698).                                                     *)
(***************************************************************************)
\* one turn of the loop up to its first await: lookup, safeParse, then the
\* order fetch of the checklist rule or the handler
ExecuteStep ==
  /\ pc = "loop"
  /\ i <= Len(agentPlan.actions)
  /\ LET action == agentPlan.actions[i]
         p == SafeParse(action.name, action.arguments)
     IN IF ~InCatalogue(action.name)
          THEN /\ Continue(<< Entry(action.name, "error",
                                    "Action is not supported by this environment.", "") >>,
                           << "lookup" >>)
               /\ UNCHANGED handlerLog
        ELSE IF ~p.success
          THEN /\ Continue(<< Entry(action.name, "error",
                                    "Invalid arguments supplied.", p.error) >>,
                           << "validate" >>)
               /\ UNCHANGED handlerLog
        ELSE IF action.name = "complete_stage"
          THEN /\ parsed' = p.data
               /\ Await(Call("workflow", "GET /api/orders/:id", p.data, NoTask,
                              ctx.token, i), "ensureFetch")
               /\ UNCHANGED << results, owner, i, running, k, handlerLog >>
        ELSE Invoke(action.name, p.data, FALSE, p.data, <<>>, <<>>)
  /\ UNCHANGED << payload, serverVars, postVars, response, ctx, backend, fetched,
                  answers >>

\* ExecuteReturn taken after any turn of the loop
ExecuteReturnEarly ==
  /\ pc = "loop"
  /\ i > 1
  /\ actionResults' = results
  /\ StartSynthesis(results)
  /\ UNCHANGED << payload, serverVars, contextSummary, contextError, userProfile,
                  normalizedRoles, agentPlan, modelPlan, planText, toolDescription,
                  response, execVars, backend, answers >>

\* the loop is over: executePlan returns the log, POST goes on to buildFinalAnswer
ExecuteReturn ==
  /\ pc = "loop"
  /\ i > Len(agentPlan.actions)
  /\ actionResults' = results
  /\ StartSynthesis(results)
  /\ UNCHANGED << payload, serverVars, contextSummary, contextError, userProfile,
                  normalizedRoles, agentPlan, modelPlan, planText, toolDescription,
                  response, execVars, backend, answers >>

\* ensureChecklistBeforeCompletion from the answer of the order fetch on
EnsureFetchReturn ==
  /\ pc = "ensureFetch"
  /\ \E outcome \in Outcomes :
       /\ answers' = Append(answers, outcome)
       /\ Served(outcome) => ServiceAccepts(inflight)
       /\ IF outcome # "ok"
            THEN /\ NotReady(ChecklistFailure(ErrorMessage(outcome)))
                 /\ UNCHANGED fetched
          ELSE IF parsed["stage"].s \notin DOMAIN backend.checklists
            THEN /\ StageNotFound
                 /\ UNCHANGED fetched
          ELSE LET checklist == backend.checklists[parsed["stage"].s]
                   pending == PendingTasks(checklist)
               IN /\ fetched' = Append(fetched, [idx |-> i, checklist |-> checklist])
                  /\ IF Len(pending) = 0
                       THEN Invoke("complete_stage", parsed, FALSE, parsed, <<>>, <<>>)
                     ELSE IF "OPERATOR" \notin ctx.roles
                       THEN PendingButNotOperator
                     ELSE Invoke("update_stage_checklist",
                                 UpdateArgs(parsed, pending), TRUE, parsed, <<>>, <<>>)
  /\ backend' \in OthersAfter(backend)
  /\ UNCHANGED << payload, serverVars, postVars, response, ctx >>

\* a handler from the answer of its call on: the next PATCH of
\* update_stage_checklist, the handler's result, or the catch that takes its
\* failure (executePlan's, or the checklist rule's for the injected update)
HandlerReturn ==
  /\ pc = "handler"
  /\ \E outcome \in Outcomes :
       /\ answers' = Append(answers, outcome)
       /\ Served(outcome) => ServiceAccepts(inflight)
       /\ backend' \in OthersAfter(IF Served(outcome) THEN ServiceEffect(inflight)
                                                     ELSE backend)
       /\ IF outcome = "ok"
            THEN /\ UNCHANGED response
                 /\ IF /\ running.name = "update_stage_checklist"
                       /\ k < Len(running.args["tasks"].a)
                      THEN /\ k' = k + 1
                           /\ Await(HandlerCall(running.name, running.args, k + 1),
                                    "handler")
                           /\ UNCHANGED << results, owner, i, parsed, running,
                                           handlerLog >>
                    ELSE IF running.injected
                      THEN Invoke("complete_stage", parsed, FALSE, parsed,
                                  << HandlerResult(running.name, running.args) >>,
                                  << "ensure" >>)
                    ELSE /\ Continue(<< HandlerResult(running.name, running.args) >>,
                                     << "handler" >>)
                         /\ UNCHANGED handlerLog
            ELSE HandlerFailure(ErrorMessage(outcome))
  /\ UNCHANGED << payload, serverVars, postVars, ctx, fetched >>

Next ==
  \/ ValidateRequest
  \/ ContextReturn
  \/ ProfileReturn
  \/ PlanReturn
  \/ ExecuteStep
  \/ ExecuteReturn
  \/ EnsureFetchReturn
  \/ HandlerReturn
  \/ SynthesisReturn

Spec == Init /\ [][Next]_vars

(***************************************************************************)
(* The server: two invocations of POST in one process. The event loop runs *)
(* one of them at a time and may resume the other wherever this one awaits; *)
(* the locals of each (route.ts 443-530, 581-698) are its own, the         *)
(* workflow service is the one both call.                                  *)
(***************************************************************************)
\* the locals of the invocation that is running
RequestState ==
  [
    pc |-> pc, payload |-> payload, contextSummary |-> contextSummary,
    contextError |-> contextError, userProfile |-> userProfile,
    normalizedRoles |-> normalizedRoles, agentPlan |-> agentPlan,
    actionResults |-> actionResults, response |-> response, ctx |-> ctx,
    results |-> results, i |-> i, parsed |-> parsed, running |-> running,
    k |-> k, inflight |-> inflight, calls |-> calls,
    handlerLog |-> handlerLog, modelPlan |-> modelPlan, fetched |-> fetched,
    owner |-> owner, planText |-> planText,
    toolDescription |-> toolDescription, executionLog |-> executionLog,
    answers |-> answers,
    cancelled |-> cancelled ]

\* the locals of an invocation that has not run yet, for body p
FreshRequest(p) ==
  [
    pc |-> "received", payload |-> p, contextSummary |-> "",
    contextError |-> "", userProfile |-> [username |-> "", roles |-> <<>>],
    normalizedRoles |-> {}, agentPlan |-> NullPlan, actionResults |-> <<>>,
    response |-> NoResponse, ctx |-> NoContext, results |-> <<>>, i |-> 0,
    parsed |-> EmptyBag, running |-> NoHandler, k |-> 0, inflight |-> NoCall,
    calls |-> <<>>, handlerLog |-> <<>>, modelPlan |-> <<>>,
    fetched |-> <<>>, owner |-> <<>>, planText |-> NoPlanText,
    toolDescription |-> <<>>, executionLog |-> <<>>, answers |-> <<>>,
    cancelled |-> FALSE ]

InitServer ==
  /\ InitRequest
  /\ payload = ServerPayloads[1]
  /\ parked = FreshRequest(ServerPayloads[2])
  /\ configured = TRUE
  /\ orders = <<>>
  /\ digest = NoDigest
  /\ extraction = NoExtraction
  /\ auth = NoAuth
  /\ backend = [ checklists |-> [PREPARATION |-> ServerChecklist, ASSEMBLY |-> <<>>],
                 completed |-> {}, shared |-> FALSE ]

\* SwitchRequest with the execution context kept in a variable of the module
SwitchRequestSharedContext ==
  /\ parked # NoRequest
  /\ parked' = RequestState
  /\ pc' = parked.pc
  /\ payload' = parked.payload
  /\ contextSummary' = parked.contextSummary
  /\ contextError' = parked.contextError
  /\ userProfile' = parked.userProfile
  /\ normalizedRoles' = parked.normalizedRoles
  /\ agentPlan' = parked.agentPlan
  /\ actionResults' = parked.actionResults
  /\ response' = parked.response
  /\ results' = parked.results
  /\ i' = parked.i
  /\ parsed' = parked.parsed
  /\ running' = parked.running
  /\ k' = parked.k
  /\ inflight' = parked.inflight
  /\ calls' = parked.calls
  /\ handlerLog' = parked.handlerLog
  /\ modelPlan' = parked.modelPlan
  /\ fetched' = parked.fetched
  /\ owner' = parked.owner
  /\ planText' = parked.planText
  /\ toolDescription' = parked.toolDescription
  /\ executionLog' = parked.executionLog
  /\ answers' = parked.answers
  /\ cancelled' = parked.cancelled
  /\ UNCHANGED << ctx, backend, configured, digestVars, otherVars >>

\* the event loop leaves this invocation where it is and resumes the other
SwitchRequest ==
  /\ parked # NoRequest
  /\ parked' = RequestState
  /\ pc' = parked.pc
  /\ payload' = parked.payload
  /\ contextSummary' = parked.contextSummary
  /\ contextError' = parked.contextError
  /\ userProfile' = parked.userProfile
  /\ normalizedRoles' = parked.normalizedRoles
  /\ agentPlan' = parked.agentPlan
  /\ actionResults' = parked.actionResults
  /\ response' = parked.response
  /\ ctx' = parked.ctx
  /\ results' = parked.results
  /\ i' = parked.i
  /\ parsed' = parked.parsed
  /\ running' = parked.running
  /\ k' = parked.k
  /\ inflight' = parked.inflight
  /\ calls' = parked.calls
  /\ handlerLog' = parked.handlerLog
  /\ modelPlan' = parked.modelPlan
  /\ fetched' = parked.fetched
  /\ owner' = parked.owner
  /\ planText' = parked.planText
  /\ toolDescription' = parked.toolDescription
  /\ executionLog' = parked.executionLog
  /\ answers' = parked.answers
  /\ cancelled' = parked.cancelled
  /\ UNCHANGED << backend, configured, digestVars, otherVars >>

\* the client of the running invocation goes away: request.signal is aborted.
\* Nothing in the route reads the signal or hands it to fetch or to the model.
CancelRequest ==
  /\ pc # "responded"
  /\ ~cancelled
  /\ cancelled' = TRUE
  /\ UNCHANGED << pc, payload, postVars, execVars, response, inflight, backend,
                  calls, answers, configured, parked, digestVars, otherVars >>

NextServer ==
  \/ Next
  \/ SwitchRequest
  \/ CancelRequest

SpecServer == InitServer /\ [][NextServer]_vars

(***************************************************************************)
(* The orders of the context digest (route.ts 741-760, 809-817): what      *)
(* buildWorkflowContext does with the list fetchOrders returned.           *)
(***************************************************************************)
\* new Date(createdAt).getTime(), in days since the epoch
getTime(createdAt) ==
  CASE createdAt = "2024-05-01T00:00:00Z" -> 19844
    [] createdAt = "2024-06-01T00:00:00Z" -> 19875
    [] OTHER -> 0

Order(id, priority, createdAt) ==
  [id |-> id, priority |-> priority, createdAt |-> createdAt]

\* the orders the lists are made of: priority null or a number, createdAt
\* absent or a date; and the order the lists are filled up with
FreeOrders ==
  { Order(0, priority, createdAt) :
      priority \in {JNull, JNum(0 - 1), JNum(0), JNum(1)},
      createdAt \in {JUndef, JStr("2024-05-01T00:00:00Z"), JStr("2024-06-01T00:00:00Z")} }

FillerOrder(position) ==
  Order(0, IF position % 2 = 0 THEN JNum(0) ELSE JNull, JStr("2024-05-01T00:00:00Z"))

\* the stage statuses of the order at a position of the list: none, or some
\* in an order that is not the workflow's
OrderStages(position) ==
  CASE position % 3 = 0 -> <<>>
    [] position % 3 = 1 ->
         << [stage |-> "DELIVERY", state |-> "BLOCKED"],
            [stage |-> "PREPARATION", state |-> "COMPLETED"],
            [stage |-> "ASSEMBLY", state |-> "IN_PROGRESS"] >>
    [] OTHER ->
         << [stage |-> "ASSEMBLY", state |-> "PENDING"],
            [stage |-> "PREPARATION", state |-> "IN_PROGRESS"] >>

\* the lists fetchOrders may return: up to MaxFree arbitrary orders with
\* filler orders before and after them, ids and stages by position
OrderLists ==
  { [j \in 1..(before + Len(free) + after) |->
       LET order == IF j > before /\ j <= before + Len(free) THEN free[j - before]
                                                               ELSE FillerOrder(j)
       IN [ id |-> j, priority |-> order.priority, createdAt |-> order.createdAt,
            stages |-> OrderStages(j) ]]
    : <<free, before, after>> \in
        { t \in SeqsUpTo(FreeOrders, MaxFree) \X (0..MaxOrders) \X (0..MaxOrders) :
            Len(t[1]) + t[2] + t[3] <= MaxOrders } }

\* compareOrders (route.ts 809-817)
compareOrders(a, b) ==
  LET priorityDiff == (IF b.priority.t = "num" THEN b.priority.n ELSE 0)
                        - (IF a.priority.t = "num" THEN a.priority.n ELSE 0)
      dateA == IF a.createdAt.t = "str" /\ a.createdAt.s # ""
                 THEN getTime(a.createdAt.s) ELSE 0
      dateB == IF b.createdAt.t = "str" /\ b.createdAt.s # ""
                 THEN getTime(b.createdAt.s) ELSE 0
  IN IF priorityDiff # 0 THEN priorityDiff ELSE dateB - dateA

RECURSIVE InsertOrder(_, _)
\* x put into a sorted list behind every order that does not come after it
InsertOrder(sorted, x) ==
  IF sorted = <<>> THEN << x >>
  ELSE IF compareOrders(sorted[1], x) <= 0
    THEN << sorted[1] >> \o InsertOrder(Tail(sorted), x)
  ELSE << x >> \o sorted

RECURSIVE SortOrders(_)
\* list.slice().sort(compareOrders): Array.prototype.sort is stable
SortOrders(list) ==
  IF list = <<>> THEN <<>>
  ELSE InsertOrder(SortOrders(SubSeq(list, 1, Len(list) - 1)), list[Len(list)])

\* LimitedOrders cutting the list before it sorts it
LimitedOrdersCutFirst(list) ==
  SortOrders(SubSeq(list, 1, IF Len(list) < MAX_CONTEXT_ORDERS THEN Len(list)
                                                                ELSE MAX_CONTEXT_ORDERS))

\* orders.slice().sort(compareOrders).slice(0, MAX_CONTEXT_ORDERS)
\* (route.ts 747-750)
LimitedOrders(list) ==
  SubSeq(SortOrders(list), 1, IF Len(list) < MAX_CONTEXT_ORDERS THEN Len(list)
                                                                ELSE MAX_CONTEXT_ORDERS)

\* rankStage (route.ts 831-833): the index in STAGE_ORDER, beyond them all for
\* a stage it does not hold
rankStage(stage) ==
  IF \E x \in 1..Len(STAGE_ORDER) : STAGE_ORDER[x] = stage
    THEN (CHOOSE x \in 1..Len(STAGE_ORDER) : STAGE_ORDER[x] = stage) - 1
    ELSE 1000

\* toLowerCase of a stage or a state
toLowerCase(text) ==
  CASE text = "PREPARATION" -> "preparation"
    [] text = "ASSEMBLY" -> "assembly"
    [] text = "DELIVERY" -> "delivery"
    [] text = "BLOCKED" -> "blocked"
    [] text = "PENDING" -> "pending"
    [] text = "IN_PROGRESS" -> "in_progress"
    [] text = "COMPLETED" -> "completed"
    [] OTHER -> text

RECURSIVE InsertStage(_, _)
InsertStage(sorted, x) ==
  IF sorted = <<>> THEN << x >>
  ELSE IF rankStage(sorted[1].stage) - rankStage(x.stage) <= 0
    THEN << sorted[1] >> \o InsertStage(Tail(sorted), x)
  ELSE << x >> \o sorted

RECURSIVE SortStages(_)
\* order.stages.slice().sort((a, b) => rankStage(a.stage) - rankStage(b.stage))
SortStages(list) ==
  IF list = <<>> THEN <<>>
  ELSE InsertStage(SortStages(SubSeq(list, 1, Len(list) - 1)), list[Len(list)])

\* formatStage (route.ts 835-843) for a stage without assignee, exception
\* and notes
formatStage(stage) == toLowerCase(stage.stage) \o ": " \o toLowerCase(stage.state)

\* formatOrder (route.ts 819-829): the id, the priority or 'n/a', and the
\* summaries of the stages in workflow order
formatOrder(order) ==
  [ id |-> order.id,
    priority |-> IF order.priority.t = "num" THEN order.priority ELSE JStr("n/a"),
    stageSummaries |-> LET sorted == SortStages(order.stages)
                       IN IF sorted = <<>> THEN << "no recorded stages." >>
                          ELSE [x \in 1..Len(sorted) |-> formatStage(sorted[x])] ]

\* the summary of buildWorkflowContext (route.ts 744-754), as its lines
SummaryOf(list) ==
  IF Len(list) = 0
    THEN << "No orders are currently available to the signed-in user." >>
    ELSE << [total |-> Len(list), showing |-> Len(LimitedOrders(list))] >>
           \o [x \in 1..Len(LimitedOrders(list)) |-> formatOrder(LimitedOrders(list)[x])]

\* SummarizeOrders sorting the list it was given (sort without slice)
SummarizeOrdersInPlace ==
  /\ digest.runs < 2
  /\ orders' = SortOrders(orders)
  /\ digest' = [ built |-> TRUE, total |-> Len(orders),
                  limited |-> IF Len(orders) = 0 THEN <<>> ELSE LimitedOrders(orders),
                  summary |-> SummaryOf(orders),
                  runs |-> digest.runs + 1 ]
  /\ UNCHANGED << pc, payload, postVars, execVars, response, inflight, backend,
                  calls, answers, configured, cancelled, parked, otherVars >>

\* buildWorkflowContext from the answer of fetchOrders to its summary: the
\* count of the orders, the orders it lists and the summary (route.ts
\* 744-754); run once, and once more on the same answer
SummarizeOrders ==
  /\ digest.runs < 2
  /\ digest' = [ built |-> TRUE, total |-> Len(orders),
                  limited |-> IF Len(orders) = 0 THEN <<>> ELSE LimitedOrders(orders),
                  summary |-> SummaryOf(orders),
                  runs |-> digest.runs + 1 ]
  /\ UNCHANGED << pc, payload, postVars, execVars, response, inflight, backend,
                  calls, answers, configured, cancelled, parked, orders, otherVars >>

InitDigest ==
  /\ InitRequest
  /\ payload = ServerPayloads[1]
  /\ configured = TRUE
  /\ parked = NoRequest
  /\ backend = [ checklists |-> [PREPARATION |-> ServerChecklist, ASSEMBLY |-> <<>>],
                 completed |-> {}, shared |-> FALSE ]
  /\ orders \in OrderLists
  /\ digest = NoDigest
  /\ extraction = NoExtraction
  /\ auth = NoAuth

NextDigest == SummarizeOrders

SpecDigest == InitDigest /\ [][NextDigest]_vars

(***************************************************************************)
(* generatePlan on the text of the model's reply (route.ts 569-578,        *)
(* 876-888). A text is a sequence of pieces: "F" is ```json, "T" is ```,   *)
(* then the two braces, a blank, and "x" for any other character.          *)
(***************************************************************************)
TextPieces == {"F", "T", "{", "}", " ", "x"}

Texts == UNION { [1..n -> TextPieces] : n \in 0..MaxText }

\* the first position of q from `from` on that holds a piece of S, 0 for none
FirstIn(q, S, from) ==
  IF \E x \in from..Len(q) : q[x] \in S
    THEN CHOOSE x \in from..Len(q) : q[x] \in S /\ \A y \in from..(x - 1) : q[y] \notin S
    ELSE 0

\* the last position of q that holds a piece of S, 0 for none
LastIn(q, S) ==
  IF \E x \in 1..Len(q) : q[x] \in S
    THEN CHOOSE x \in 1..Len(q) : q[x] \in S /\ \A y \in (x + 1)..Len(q) : q[y] \notin S
    ELSE 0

\* extractJsonText with a greedy match of the fence: up to the last ```
extractJsonTextGreedy(text) ==
  LET trimmed == Trim(text)
      open == FirstIn(trimmed, {"F"}, 1)
      close == IF open = 0 THEN 0
               ELSE IF LastIn(trimmed, {"F", "T"}) > open
                 THEN LastIn(trimmed, {"F", "T"}) ELSE 0
      start == FirstIn(trimmed, {"{"}, 1)
      end == LastIn(trimmed, {"}"})
  IN IF close # 0
       THEN [found |-> TRUE, candidate |-> Trim(SubSeq(trimmed, open + 1, close - 1))]
     ELSE IF start = 0 \/ end = 0 \/ end <= start
       THEN [found |-> FALSE, candidate |-> <<>>]
     ELSE [found |-> TRUE, candidate |-> SubSeq(trimmed, start, end)]

\* extractJson (route.ts 876-888) on a text: the lazy match of
\* /```json([\s\S]*?)```/i ends at the next ```, which may also be the start
\* of another ```json
extractJsonText(text) ==
  LET trimmed == Trim(text)
      open == FirstIn(trimmed, {"F"}, 1)
      close == IF open = 0 THEN 0 ELSE FirstIn(trimmed, {"F", "T"}, open + 1)
      start == FirstIn(trimmed, {"{"}, 1)
      end == LastIn(trimmed, {"}"})
  IN IF close # 0
       THEN [found |-> TRUE, candidate |-> Trim(SubSeq(trimmed, open + 1, close - 1))]
     ELSE IF start = 0 \/ end = 0 \/ end <= start
       THEN [found |-> FALSE, candidate |-> <<>>]
     ELSE [found |-> TRUE, candidate |-> SubSeq(trimmed, start, end)]

\* whether JSON.parse accepts the candidate: of the texts over TextPieces the
\* empty object, with blanks anywhere around and inside it
JsonParses(candidate) ==
  SelectSeq(candidate, LAMBDA piece : piece # " ") = << "{", "}" >>

\* generatePlan from the text of the reply on (route.ts 569-578): the plan, or
\* the error it throws; PlanSchema accepts the empty object
GeneratePlanFrom(text) ==
  LET planJson == extractJsonText(text)
  IN IF ~planJson.found \/ planJson.candidate = <<>>
       THEN "Agent plan was not valid JSON."
     ELSE IF ~JsonParses(planJson.candidate) THEN "SyntaxError"
     ELSE "plan"

\* generatePlan is run on the text
ExtractPlan ==
  /\ ~extraction.done
  /\ extraction' = [ text |-> extraction.text, done |-> TRUE,
                      found |-> extractJsonText(extraction.text).found,
                      candidate |-> extractJsonText(extraction.text).candidate,
                      outcome |-> GeneratePlanFrom(extraction.text) ]
  /\ UNCHANGED << pc, payload, postVars, execVars, response, inflight, backend,
                  calls, answers, configured, cancelled, parked, digestVars, auth >>

InitExtract ==
  /\ InitRequest
  /\ payload = ServerPayloads[1]
  /\ configured = TRUE
  /\ parked = NoRequest
  /\ backend = [ checklists |-> [PREPARATION |-> ServerChecklist, ASSEMBLY |-> <<>>],
                 completed |-> {}, shared |-> FALSE ]
  /\ orders = <<>>
  /\ digest = NoDigest
  /\ auth = NoAuth
  /\ extraction \in { [NoExtraction EXCEPT !.text = text] : text \in Texts }

NextExtract == ExtractPlan

SpecExtract == InitExtract /\ [][NextExtract]_vars

(***************************************************************************)
(* Properties.                                                             *)
(***************************************************************************)
PlanLen == Len(agentPlan.actions)

\* executePlan has been called
Executing == i > 0

\* executePlan has returned
Returned == i > 0 /\ pc \in {"synthesis", "responded"}

\* the positions of the log whose entries planned action j produced
EntriesOf(j) == {p \in 1..Len(owner) : owner[p].idx = j}

\* the handler invocations made for planned action j
InvocationsOf(j) == {h \in 1..Len(handlerLog) : handlerLog[h].idx = j}

IsPrefix(a, b) == Len(a) <= Len(b) /\ SubSeq(b, 1, Len(a)) = a

\* C1: whatever the plan and the outcomes of the remote calls, executePlan
\* goes through the planned actions one by one and returns the log: no
\* response is sent from inside it, it returns only once the loop has passed
\* the last planned action, and an action that ended in an error entry is
\* followed by the attempt of the next one.
C1_ExecutePlanNeverAborts ==
  Executing =>
    /\ i <= PlanLen + 1
    /\ pc \notin {"synthesis", "responded"} => response = NoResponse
    /\ Returned => i = PlanLen + 1 /\ actionResults = results
    /\ \A p \in 1..Len(results) :
         (results[p].status = "error" /\ owner[p].idx < PlanLen /\ Returned)
           => EntriesOf(owner[p].idx + 1) # {}

\* the first planned action's handler failed, and the second was carried out
C1_Witness ==
  /\ Returned
  /\ PlanLen = 2
  /\ \E p \in EntriesOf(1) : owner[p].src = "catch" /\ results[p].status = "error"
  /\ InvocationsOf(2) # {}
  /\ \E p \in EntriesOf(2) : results[p].status = "success"

\* C2: every planned action the loop has gone past has at least one entry in
\* the log, whichever way it ended.
C2_EveryActionLogged ==
  /\ Len(owner) = Len(results)
  /\ \A j \in 1..PlanLen : j < i => EntriesOf(j) # {}

\* a completion blocked by the checklist rule and an action with invalid
\* arguments, each with its one entry
C2_Witness ==
  /\ Returned
  /\ PlanLen = 2
  /\ \E p \in EntriesOf(1) : owner[p].src = "ensure" /\ InvocationsOf(1) = {}
  /\ \E p \in EntriesOf(2) : owner[p].src = "validate"

\* the log is in planning order, and an entry of the completion handler has the
\* injected entry, if there is one, right before it
OrderedLog ==
  /\ \A p, q \in 1..Len(owner) : p < q => owner[p].idx <= owner[q].idx
  /\ \A p, q \in 1..Len(owner) :
       ( /\ owner[p].src \in {"handler", "catch"}
         /\ results[p].name = "complete_stage"
         /\ owner[q].src = "ensure"
         /\ owner[q].idx = owner[p].idx ) => q = p - 1
  /\ \A q \in 1..Len(owner) :
       ( /\ owner[q].src = "ensure"
         /\ results[q].status = "success"
         /\ owner[q].idx < i )
       => /\ q < Len(owner)
          /\ owner[q + 1].idx = owner[q].idx
          /\ owner[q + 1].src \in {"handler", "catch"}
          /\ results[q + 1].name = "complete_stage"

\* C3: the log only grows at its end, its entries are in planning order, and
\* the entry the checklist rule injects is immediately before the entry of
\* the completion it gates.
C3_LogAppendOnlyOrdered ==
  [][IsPrefix(results, results') /\ IsPrefix(owner, owner') /\ OrderedLog']_vars

\* an injected update followed by its completion, after another action
C3_Witness ==
  /\ Returned
  /\ PlanLen = 2
  /\ Len(results) = 3
  /\ owner[1].idx = 1
  /\ owner[2] = [idx |-> 2, src |-> "ensure"]
  /\ results[2].name = "update_stage_checklist" /\ results[2].status = "success"
  /\ owner[3].idx = 2 /\ results[3].name = "complete_stage"

\* the remote calls issued for planned action j
CallsOf(j) == {c \in 1..Len(calls) : calls[c].idx = j}
PatchCallsOf(j) == {c \in CallsOf(j) : calls[c].op = "PATCH checklist"}
CompleteCallsOf(j) == {c \in CallsOf(j) : calls[c].op = "POST complete"}

\* the invocations of the completion handler, and of the injected update
CompletionInvocationsOf(j) ==
  {h \in InvocationsOf(j) : handlerLog[h].name = "complete_stage"}
InjectedOf(j) == {h \in InvocationsOf(j) : handlerLog[h].injected}

FirstEntryOf(j) == CHOOSE p \in EntriesOf(j) : \A q \in EntriesOf(j) : p <= q
LastEntryOf(j) == CHOOSE p \in EntriesOf(j) : \A q \in EntriesOf(j) : q <= p

\* the entry the injected update of planned action j ended in reports success
InjectedSucceeded(j) ==
  \E p \in EntriesOf(j) : owner[p].src = "ensure" /\ results[p].status = "success"

\* the ids of the required tasks of a checklist that are not completed
RequiredIncomplete(checklist) ==
  { checklist[x].id : x \in {y \in 1..Len(checklist) :
                               checklist[y].required /\ ~checklist[y].completed} }

TaskIdsOf(args) == {args["tasks"].a[x].taskId.s : x \in 1..Len(args["tasks"].a)}

\* C4 (as claimed): an action of the model's plan whose name is not in the
\* catalogue gets exactly one error entry in the log of the answered request.
C4_UnknownActionGetsOneError ==
  pc = "responded" =>
    \A j \in 1..Len(modelPlan) :
      ~InCatalogue(modelPlan[j].name) =>
        \E p \in 1..Len(results) :
          /\ results[p].name = modelPlan[j].name
          /\ results[p].status = "error"

\* C5: for a completion whose order fetch showed N >= 1 required tasks not
\* completed, by an operator: the update handler is invoked once, injected,
\* with completed = true for exactly those N tasks; every checklist PATCH sent
\* for the action is one of them, each at most once; and when the completion
\* is attempted all N were sent and the injected entry is immediately before
\* the completion's.
C5_InjectedUpdateMarksExactlyPending ==
  \A f \in 1..Len(fetched) :
    LET j == fetched[f].idx
        need == RequiredIncomplete(fetched[f].checklist)
        sent == {calls[c].taskId : c \in PatchCallsOf(j)}
    IN (need # {} /\ "OPERATOR" \in ctx.roles) =>
         /\ Cardinality(InjectedOf(j)) = 1
         /\ \A h \in InjectedOf(j) :
              /\ handlerLog[h].name = "update_stage_checklist"
              /\ TaskIdsOf(handlerLog[h].args) = need
              /\ Len(handlerLog[h].args["tasks"].a) = Cardinality(need)
              /\ \A x \in 1..Len(handlerLog[h].args["tasks"].a) :
                   handlerLog[h].args["tasks"].a[x].completed = JBool(TRUE)
         /\ \A c \in PatchCallsOf(j) : calls[c].completed /\ calls[c].taskId \in need
         /\ Cardinality(sent) = Cardinality(PatchCallsOf(j))
         /\ j < i =>
              /\ EntriesOf(j) # {}
              /\ owner[FirstEntryOf(j)].src = "ensure"
              /\ results[FirstEntryOf(j)].name = "update_stage_checklist"
         /\ CompletionInvocationsOf(j) # {} =>
              /\ sent = need
              /\ InjectedSucceeded(j)
              /\ j < i =>
                   \E p \in EntriesOf(j) :
                     /\ owner[p].src = "ensure"
                     /\ p + 1 \in EntriesOf(j)
                     /\ results[p + 1].name = "complete_stage"
                     /\ owner[p + 1].src \in {"handler", "catch"}

\* one required task was pending beside a task that was not: the update marked
\* that one task and the completion followed
C5_Witness ==
  \E f \in 1..Len(fetched) :
    /\ Cardinality(RequiredIncomplete(fetched[f].checklist)) = 1
    /\ Len(fetched[f].checklist) = 2
    /\ "OPERATOR" \in ctx.roles
    /\ fetched[f].idx < i
    /\ InjectedSucceeded(fetched[f].idx)
    /\ CompletionInvocationsOf(fetched[f].idx) # {}
    /\ Cardinality(PatchCallsOf(fetched[f].idx)) = 1

\* C6: for a completion whose order fetch showed pending required tasks, by a
\* caller who is no operator: the completion handler is not invoked, neither a
\* completion nor a checklist update is sent, and the last entry of the action
\* is an error.
C6_NonOperatorNeverCompletes ==
  \A f \in 1..Len(fetched) :
    LET j == fetched[f].idx
    IN (RequiredIncomplete(fetched[f].checklist) # {} /\ "OPERATOR" \notin ctx.roles) =>
         /\ CompletionInvocationsOf(j) = {}
         /\ PatchCallsOf(j) = {}
         /\ CompleteCallsOf(j) = {}
         /\ j < i
         /\ EntriesOf(j) # {}
         /\ results[LastEntryOf(j)].status = "error"

\* a supervisor's plan held a completion of a stage with pending required tasks
C6_Witness ==
  \E f \in 1..Len(fetched) :
    /\ RequiredIncomplete(fetched[f].checklist) # {}
    /\ ctx.roles = {"SUPERVISOR"}
    /\ Returned

\* C7: when the injected update of a completion did not end in a success
\* entry, the completion handler is not invoked for that planned action and
\* no completion is sent for it; nor is it while the update is running.
C7_FailedUpdateBlocksCompletion ==
  \A j \in 1..PlanLen :
    /\ (InjectedOf(j) # {} /\ ~InjectedSucceeded(j)) =>
         /\ CompletionInvocationsOf(j) = {}
         /\ CompleteCallsOf(j) = {}
    /\ (\A c \in 1..Len(calls) : calls[c].op # "POST complete") =>
         backend.completed = {}

\* the injected update failed at a PATCH and the loop has moved on
C7_Witness ==
  \E j \in 1..PlanLen :
    /\ j < i
    /\ InjectedOf(j) # {}
    /\ ~InjectedSucceeded(j)
    /\ PatchCallsOf(j) # {}
    /\ results[LastEntryOf(j)].status = "error"

\* C8 (as claimed): when the injected update did not end in success, the last
\* entry of the planned action is an error entry named complete_stage, which
\* comes in addition to the entry of the update.
C8_TerminalErrorForCompletion ==
  \A j \in 1..PlanLen :
    (j < i /\ InjectedOf(j) # {} /\ ~InjectedSucceeded(j)) =>
      /\ Cardinality(EntriesOf(j)) >= 2
      /\ results[LastEntryOf(j)].name = "complete_stage"
      /\ results[LastEntryOf(j)].status = "error"

\* the bag of planned action j satisfies the schema of its action
ValidArguments(j) ==
  \A key \in SchemaKeys(agentPlan.actions[j].name) :
    FieldOk(agentPlan.actions[j].name, key, agentPlan.actions[j].arguments[key])

\* C9: a planned action whose bag violates the schema gets no handler
\* invocation and no remote call, and exactly one error entry with the
\* diagnostic, and the loop goes on; a handler invoked for a planned action
\* receives, for every key of the schema, the value the bag holds.
C9_InvalidArgumentsNeverReachHandler ==
  \A j \in 1..PlanLen :
    /\ (InCatalogue(agentPlan.actions[j].name) /\ ~ValidArguments(j)) =>
         /\ InvocationsOf(j) = {}
         /\ CallsOf(j) = {}
         /\ j < i =>
              /\ Cardinality(EntriesOf(j)) = 1
              /\ \A p \in EntriesOf(j) :
                   /\ results[p].name = agentPlan.actions[j].name
                   /\ results[p].status = "error"
                   /\ results[p].error # ""
              /\ (Returned /\ j < PlanLen) => EntriesOf(j + 1) # {}
    /\ \A h \in InvocationsOf(j) :
         ~handlerLog[h].injected =>
           /\ handlerLog[h].name = agentPlan.actions[j].name
           /\ \A key \in SchemaKeys(handlerLog[h].name) :
                handlerLog[h].args[key] = agentPlan.actions[j].arguments[key]

\* an invalid bag was turned away and the next action's valid bag, which also
\* holds a key its schema does not name, reached its handler
C9_Witness ==
  /\ Returned
  /\ PlanLen = 2
  /\ ~ValidArguments(1) /\ InvocationsOf(1) = {}
  /\ \E p \in EntriesOf(1) : owner[p].src = "validate"
  /\ ValidArguments(2)
  /\ agentPlan.actions[2].arguments["extra"] # JUndef
  /\ \E h \in InvocationsOf(2) : handlerLog[h].args["orderNumber"] = JStr("PO-9")

\* the profile has been fetched
ProfileKnown == userProfile.username # ""

\* no action of the catalogue allows one of the caller's roles
ZeroAuthorized ==
  \A name \in Range(ACTION_NAMES) : ActionRoles(name) \cap normalizedRoles = {}

\* C10: when the caller's roles authorize no action, the model is not asked
\* for a plan, there is no plan, executePlan is not called, no handler runs,
\* the log is empty, and the synthesis call is made; its answer is the
\* response.
C10_NoAuthorizedActionsNoPlan ==
  (ProfileKnown /\ ZeroAuthorized) =>
    /\ \A c \in 1..Len(calls) : calls[c].op # "plan" /\ calls[c].idx = 0
    /\ agentPlan = NullPlan
    /\ modelPlan = <<>>
    /\ ~Executing
    /\ handlerLog = <<>>
    /\ results = <<>> /\ actionResults = <<>>
    /\ \E c \in 1..Len(calls) : calls[c].op = "synthesis"
    /\ pc \in {"synthesis", "responded"}
    /\ pc = "responded" =>
         \/ response.status = 200 /\ response.answer # ""
         \/ response.status = 502

\* a caller whose roles are all unrecognized got an answer
C10_Witness ==
  /\ ProfileKnown
  /\ ZeroAuthorized
  /\ userProfile.roles # <<>>
  /\ pc = "responded"
  /\ response.status = 200

\* the request was answered with the server error `message`, and nothing of a
\* plan was carried out: executePlan was not called, no handler ran, the log is
\* empty, and no call went to the workflow service after the context fetch
FailedBeforeExecution(message) ==
  /\ pc = "responded"
  /\ response.status = 502
  /\ response.message = message
  /\ ~Executing
  /\ agentPlan = NullPlan
  /\ handlerLog = <<>>
  /\ results = <<>> /\ actionResults = <<>>
  /\ \A c \in 1..Len(calls) : calls[c].idx = 0 /\ calls[c].op # "synthesis"
  /\ backend.completed = {}

\* C11: when the planning reply holds neither a json fence nor braces, the
\* request ends with the plan-parse error as its one response, a server error,
\* and executePlan is never called: no handler runs and nothing is sent to the
\* workflow service.
C11_NoJsonNoExecution ==
  (planText.received /\ ~planText.fence /\ ~planText.braces) =>
    FailedBeforeExecution("Agent plan was not valid JSON.")

\* an operator's request got prose for a plan
C11_Witness ==
  /\ planText.received /\ ~planText.fence /\ ~planText.braces
  /\ "OPERATOR" \in normalizedRoles
  /\ pc = "responded"

\* the JSON of the planning reply does not satisfy PlanSchema
SchemaInvalid ==
  \/ planText.intentKind = "other"
  \/ planText.actionsKind = "other"
  \/ \E j \in 1..Len(modelPlan) :
        modelPlan[j].name \notin Range(ACTION_NAMES) \/ modelPlan[j].argsKind = "other"

\* C12: when the planning reply parses as JSON but is not schema-valid, the
\* request fails with a server error and no action of that plan is executed,
\* the well-formed ones before the invalid one included.
C12_NoPartialPlan ==
  ( /\ planText.received
    /\ planText.fence \/ planText.braces
    /\ planText.parses
    /\ SchemaInvalid ) =>
    FailedBeforeExecution("Agent plan schema validation failed.")

\* a plan of a well-formed action followed by one of an unknown name was
\* turned down
C12_Witness ==
  /\ pc = "responded"
  /\ Len(modelPlan) = 2
  /\ modelPlan[1].name = "list_orders"
  /\ modelPlan[2].name \notin Range(ACTION_NAMES)
  /\ planText.parses

\* the body holds no objective, or one that is empty once trimmed
MissingObjective ==
  \/ ~payload.hasQuestion
  \/ \A j \in 1..Len(payload.question) : payload.question[j] = " "

MissingCredential == payload.token = ""

\* C13 (as claimed, for a server whose model endpoint is configured): a request
\* without objective or without credential is answered with a client error
\* (status 4xx), and no remote call was made for it.
C13_InvalidRequestGetsClientError ==
  (configured /\ (MissingObjective \/ MissingCredential)) =>
    /\ calls = <<>>
    /\ pc = "responded" => response.status \in 400..499

\* the order fetch of buildWorkflowContext, the first call of a request, has
\* been answered
ContextFetched == Len(answers) >= 1

\* C14: a failed order fetch of the context builder leaves an empty digest and
\* a warning, and the request goes on to the identity fetch and beyond: it is
\* never the fetch that ends the request, and a successful response carries
\* the warning in contextWarning. After a successful fetch there is no
\* warning, and none in the response.
C14_ContextFailureIsSoft ==
  ContextFetched =>
    /\ calls[1].op = "GET /api/orders" /\ calls[1].idx = 0
    /\ Len(calls) >= 2 /\ calls[2].op = "GET /auth/me"
    /\ IF answers[1] = "ok"
         THEN /\ contextError = ""
              /\ response.status = 200 => response.contextWarning = ""
         ELSE /\ contextSummary = ""
              /\ contextError = ErrorMessage(answers[1])
              /\ contextError # ""
              /\ response.status = 200 => response.contextWarning = contextError
              /\ response.status = 502 =>
                   /\ Len(answers) >= 2
                   /\ response.message # contextError
                        \/ \E c \in 2..Len(answers) : answers[c] = answers[1]

\* the order fetch failed, and the plan was still made and carried out and
\* the answer synthesized
C14_Witness ==
  /\ ContextFetched
  /\ answers[1] = "thrown"
  /\ response.status = 200
  /\ response.contextWarning = "fetch failed"
  /\ PlanLen = 2
  /\ \E p \in 1..Len(results) : results[p].status = "success"

\* fetchUserProfile, the second call of a request, has failed
IdentityFailed == Len(answers) >= 2 /\ answers[2] # "ok"

\* C15: when the identity fetch fails the request ends there with one server
\* error: the two fetches are all the calls it made, so the model was not
\* called, and no handler ran and the log is empty.
C15_IdentityFailureIsHard ==
  IdentityFailed =>
    /\ calls[2].op = "GET /auth/me"
    /\ pc = "responded"
    /\ response.status = 502
    /\ response.message = ErrorMessage(answers[2])
    /\ Len(calls) = 2
    /\ \A c \in 1..Len(calls) : calls[c].svc # "model"
    /\ ~ProfileKnown
    /\ ~Executing
    /\ handlerLog = <<>>
    /\ results = <<>>
    /\ backend.completed = {}

\* the identity service answered with an error response after the context
\* had been fetched
C15_Witness ==
  /\ IdentityFailed
  /\ answers[1] = "ok"
  /\ answers[2] = "error"
  /\ pc = "responded"

\* generatePlan has sent its prompt to the model
PlanRequested == \E c \in 1..Len(calls) : calls[c].op = "plan"

\* the actions of the catalogue that allow one of the caller's roles
UsableActions ==
  {name \in Range(ACTION_NAMES) : \E role \in normalizedRoles : role \in ActionRoles(name)}

\* C16: the planning prompt lists each action the caller's normalized roles
\* allow, once, and no other action; without a planning call no list is made.
C16_PromptEnumeratesAllowed ==
  IF PlanRequested
    THEN /\ Range(toolDescription) = UsableActions
         /\ Len(toolDescription) = Cardinality(UsableActions)
    ELSE toolDescription = <<>>

\* an operator's prompt: the operator's and the common actions are listed, the
\* supervisor's are not
C16_Witness ==
  /\ PlanRequested
  /\ normalizedRoles = {"OPERATOR"}
  /\ "complete_stage" \in Range(toolDescription)
  /\ "list_orders" \in Range(toolDescription)
  /\ "approve_stage_skip" \notin Range(toolDescription)

\* the calls issued and not yet answered
Outstanding == Len(calls) - Len(answers)

\* the positions at which the request awaits a remote call
Awaiting == pc \in {"context", "profile", "planning", "ensureFetch", "handler", "synthesis"}

\* C17: at most one remote call is outstanding, and it is the one the request
\* awaits; the loop of executePlan is at an action only when every call of
\* the actions before it has been answered and no handler is running; the
\* calls of the planned actions are issued in plan order, each task's PATCH
\* after the answer to the one before.
C17_NoOverlap ==
  /\ Outstanding \in {0, 1}
  /\ Outstanding = 1 <=> Awaiting
  /\ Outstanding = 1 => inflight = calls[Len(calls)]
  /\ pc = "loop" => running = NoHandler /\ inflight = NoCall
  /\ \A c \in 1..Len(calls) :
       /\ calls[c].idx <= i
       /\ (calls[c].idx > 0 /\ calls[c].idx < i) => c <= Len(answers)
  /\ \A c, d \in 1..Len(calls) :
       (c < d /\ calls[d].idx > 0) => calls[c].idx <= calls[d].idx
  /\ \A h \in 1..Len(handlerLog) : handlerLog[h].idx <= i

\* a checklist update of two tasks sent its two PATCH requests one after the
\* other, and the next planned action sent its request after them
C17_Witness ==
  /\ pc = "handler"
  /\ i = 2
  /\ Cardinality({c \in CallsOf(1) : calls[c].op = "PATCH checklist"}) = 2
  /\ CallsOf(2) # {}
  /\ Outstanding = 1

\* the calls that were answered with a failure
FailedCalls == {c \in 1..Len(answers) : answers[c] # "ok"}

ErrorEntriesOf(j) == {p \in EntriesOf(j) : results[p].status = "error"}

\* C18: a call that failed is not issued again in the request; when it was
\* made for a planned action, it is the last call of that action, the action
\* has exactly one error entry, and the loop has moved on to the next action.
C18_NoRetries ==
  \A c \in FailedCalls :
    /\ \A d \in (c + 1)..Len(calls) : calls[d] # calls[c]
    /\ calls[c].idx > 0 =>
         /\ \A d \in (c + 1)..Len(calls) : calls[d].idx # calls[c].idx
         /\ calls[c].idx < i
         /\ Cardinality(ErrorEntriesOf(calls[c].idx)) = 1
         /\ (Returned /\ calls[c].idx < PlanLen) => EntriesOf(calls[c].idx + 1) # {}

\* the first planned action's request was rejected, and the second action's
\* request was sent and answered
C18_Witness ==
  /\ Returned
  /\ PlanLen = 2
  /\ \E c \in FailedCalls : calls[c].idx = 1 /\ answers[c] = "error"
  /\ \E c \in CallsOf(2) : c <= Len(answers) /\ answers[c] = "ok"

\* the execution context executePlan is given for the invocation with locals R
ContextOf(R) ==
  [ token |-> R.payload.token,
    username |-> IdentityOf(R.payload.token).username,
    roles |-> R.normalizedRoles ]

\* the invocation with locals R holds only what its own request produced: its
\* profile and roles are those of its token, its plan is the model's reply to
\* its objective, every call to the services carries its token, every handler
\* ran with its context, and its log holds, in plan order, entries of its own
\* planned actions (or of the update the checklist rule injects for them)
OwnState(R) ==
  /\ R.userProfile.username \in {"", IdentityOf(R.payload.token).username}
  /\ R.userProfile.roles \in IdentityOf(R.payload.token).roleLists \cup { <<>> }
  /\ R.normalizedRoles = normalizeRoles(R.userProfile.roles)
  /\ R.planText.received =>
       \E reply \in RepliesTo(Trim(R.payload.question)) : reply.value.items = R.modelPlan
  /\ R.agentPlan.present =>
       /\ Len(R.agentPlan.actions) = Len(R.modelPlan)
       /\ \A j \in 1..Len(R.modelPlan) : R.agentPlan.actions[j].name = R.modelPlan[j].name
  /\ R.ctx \in {NoContext, ContextOf(R)}
  /\ \A c \in 1..Len(R.calls) :
       R.calls[c].svc \in {"workflow", "identity"} => R.calls[c].token = R.payload.token
  /\ \A h \in 1..Len(R.handlerLog) :
       /\ R.handlerLog[h].ctx = ContextOf(R)
       /\ R.handlerLog[h].idx \in 1..Len(R.agentPlan.actions)
  /\ Len(R.owner) = Len(R.results)
  /\ \A p \in 1..Len(R.results) :
       /\ R.owner[p].idx \in 1..Len(R.agentPlan.actions)
       /\ R.results[p].name \in
            {R.agentPlan.actions[R.owner[p].idx].name, "update_stage_checklist"}
       /\ \A q \in 1..Len(R.results) : p < q => R.owner[p].idx <= R.owner[q].idx
  /\ R.actionResults \in {<<>>, R.results}

\* C19: with two requests interleaved in every way, each invocation's locals
\* hold only what its own request produced: its log, in its own plan order,
\* and its own token, username and roles in every handler and every call.
\* (The catalogue is a constant of the module; no step assigns to it.)
C19_RequestsIndependent ==
  parked # NoRequest =>
    /\ parked.payload # payload
    /\ OwnState(RequestState)
    /\ OwnState(parked)

\* both invocations are inside a handler at once, each awaiting its own call
C19_Witness ==
  /\ parked # NoRequest
  /\ pc = "handler" /\ parked.pc = "handler"
  /\ inflight.token = payload.token
  /\ parked.inflight.token = parked.payload.token
  /\ inflight.token # parked.inflight.token
  /\ results # <<>> /\ parked.results # <<>>

\* C20 (as claimed): once the inbound request is cancelled, the invocation
\* issues no further remote call.
C20_CancellationStopsCalls ==
  [][(cancelled /\ cancelled' /\ payload' = payload) => calls' = calls]_vars

\* a failure the request cannot go on from, after its validation: the identity
\* fetch failed, a call of the model failed, or the planning reply is unusable
HardFailure ==
  \/ IdentityFailed
  \/ \E c \in 1..Len(answers) : calls[c].svc = "model" /\ answers[c] # "ok"
  \/ planText.received /\ ~agentPlan.present

\* C21: a request that hits such a failure is answered, in that step, with
\* status 502 and a body that holds the message and nothing else: no answer, no
\* model, no warning, and the response has no field for the plan or the log; a
\* response once sent is never replaced. This is so too when the synthesis call
\* fails after planned actions were executed.
C21_FailureCarriesOnlyMessage ==
  [][ /\ response # NoResponse => response' = response
      /\ HardFailure' =>
            /\ pc' = "responded"
            /\ response' = [NoResponse EXCEPT !.status = 502,
                                              !.message = response'.message]
            /\ DOMAIN response' = {"status", "message", "answer", "model",
                                   "contextWarning"} ]_vars

C21_Witness ==
  /\ pc = "responded"
  /\ response.status = 502
  /\ calls[Len(calls)].op = "synthesis"
  /\ \E p \in 1..Len(results) : results[p].status = "success"
  /\ backend.completed # {}
  /\ response.answer = ""

SynthesisRequested == \E c \in 1..Len(calls) : calls[c].op = "synthesis"

EnsureCallsOf(j) ==
  {c \in CallsOf(j) : /\ agentPlan.actions[j].name = "complete_stage"
                       /\ calls[c].op \in {"GET /api/orders/:id", "PATCH checklist"}}

\* C23: when a call of the checklist rule fails (the order fetch, or a PATCH of
\* the injected update), the failure is caught there: the planned completion
\* has exactly one log entry, an error entry of update_stage_checklist that
\* carries the failure's message; the completion handler is not invoked and
\* no completion request is sent; the loop has moved on, and once it is over
\* every later planned action has its entries.
C23_ChecklistFailureCaught ==
  \A j \in 1..PlanLen :
    \A c \in EnsureCallsOf(j) :
      (c <= Len(answers) /\ answers[c] # "ok") =>
        /\ i > j
        /\ Cardinality(EntriesOf(j)) = 1
        /\ \A p \in EntriesOf(j) :
             /\ owner[p].src = "ensure"
             /\ results[p] = ChecklistFailure(ErrorMessage(answers[c]))
        /\ CompletionInvocationsOf(j) = {}
        /\ CompleteCallsOf(j) = {}
        /\ \A d \in CallsOf(j) : d <= c
        /\ Returned => \A later \in (j + 1)..PlanLen : EntriesOf(later) # {}
        /\ pc = "responded" => SynthesisRequested

C23_Witness ==
  /\ pc = "responded"
  /\ response.status = 200
  /\ PlanLen = 2
  /\ agentPlan.actions[1].name = "complete_stage"
  /\ \E c \in EnsureCallsOf(1) : calls[c].op = "PATCH checklist" /\ answers[c] = "error"
  /\ Len(results) = 2
  /\ results[1].name = "update_stage_checklist" /\ results[1].status = "error"
  /\ results[2].status = "success"

\* the order fetches of the checklist rule that found no required task
\* incomplete
FetchedNothingPending ==
  {f \in 1..Len(fetched) : RequiredIncomplete(fetched[f].checklist) = {}}

\* C24: when the order fetch of the checklist rule finds no required task of
\* the stage incomplete, the rule adds no entry to the log, injects no update
\* and sends no PATCH, with or without the OPERATOR role; the completion
\* handler is invoked, once, the calls of the action are the fetch and the
\* completion request, and when the action is over it has exactly one entry,
\* the completion handler's.
C24_NothingPendingNothingAdded ==
  \A f \in FetchedNothingPending :
    LET j == fetched[f].idx
    IN /\ InjectedOf(j) = {}
       /\ PatchCallsOf(j) = {}
       /\ \A p \in EntriesOf(j) : owner[p].src # "ensure"
       /\ Cardinality(CompletionInvocationsOf(j)) = 1
       /\ Cardinality(InvocationsOf(j)) = 1
       /\ Cardinality(CompleteCallsOf(j)) = 1
       /\ Cardinality(CallsOf(j)) = 2
       /\ i > j =>
            /\ Cardinality(EntriesOf(j)) = 1
            /\ \A p \in EntriesOf(j) :
                 /\ results[p].name = "complete_stage"
                 /\ owner[p].src \in {"handler", "catch"}

C24_Witness ==
  /\ "OPERATOR" \notin ctx.roles
  /\ \E f \in FetchedNothingPending :
       /\ \E x \in 1..Len(fetched[f].checklist) : ~fetched[f].checklist[x].completed
       /\ i > fetched[f].idx
       /\ \E p \in EntriesOf(fetched[f].idx) : results[p].status = "success"

\* the tasks planned action e set completed, when it is an update of the
\* checklist of the stage planned action j completes and its handler returned
\* success
MarkedBy(e, j) ==
  IF /\ agentPlan.actions[e].name = "update_stage_checklist"
     /\ agentPlan.actions[e].arguments["orderId"] = agentPlan.actions[j].arguments["orderId"]
     /\ agentPlan.actions[e].arguments["stage"] = agentPlan.actions[j].arguments["stage"]
     /\ \E p \in EntriesOf(e) : owner[p].src = "handler" /\ results[p].status = "success"
    THEN { agentPlan.actions[e].arguments["tasks"].a[x].taskId.s :
             x \in { y \in 1..Len(agentPlan.actions[e].arguments["tasks"].a) :
                        agentPlan.actions[e].arguments["tasks"].a[y].completed.n = 1 } }
    ELSE {}

\* C25: the order fetch of the checklist rule for a planned completion is
\* issued after every call of the earlier planned actions, and the checklist
\* it returns shows as completed every task an earlier update of the plan
\* set completed; so when those tasks are all the required tasks of the
\* stage, the rule injects no update and sends no PATCH for the completion.
C25_ReadAfterWrite ==
  \A f \in 1..Len(fetched) :
    LET j == fetched[f].idx
        checklist == fetched[f].checklist
        marked == UNION { MarkedBy(e, j) : e \in 1..(j - 1) }
        required == { checklist[x].id : x \in { y \in 1..Len(checklist) :
                                                   checklist[y].required } }
    IN /\ \A e \in 1..(j - 1) : \A c \in CallsOf(e) : \A d \in CallsOf(j) :
            c < d /\ c <= Len(answers)
       /\ RequiredIncomplete(checklist) \cap marked = {}
       /\ required \subseteq marked => InjectedOf(j) = {} /\ PatchCallsOf(j) = {}

C25_Witness ==
  /\ PlanLen = 2
  /\ agentPlan.actions[2].name = "complete_stage"
  /\ MarkedBy(1, 2) = {"t1", "t2"}
  /\ Len(fetched) = 1
  /\ \A x \in 1..Len(fetched[1].checklist) :
       fetched[1].checklist[x].required /\ fetched[1].checklist[x].completed
  /\ Len(fetched[1].checklist) = 2
  /\ InjectedOf(2) = {}
  /\ backend.completed = {"PREPARATION"}

\* the execution context POST builds for executePlan (route.ts 505-509)
RequestContext ==
  [token |-> payload.token, username |-> userProfile.username,
   roles |-> normalizedRoles]

\* C26: the execution context, once built, is the request's token, the
\* profile's username and the normalized roles, and no step changes it; every
\* handler invocation, the injected update included, was handed that context,
\* and every call made for a planned action carries its token.
C26_ContextNeverMutated ==
  [][ /\ ctx # NoContext => ctx' = ctx
      /\ ctx' # NoContext => ctx' = RequestContext'
      /\ \A h \in 1..Len(handlerLog') : handlerLog'[h].ctx = RequestContext'
      /\ \A c \in 1..Len(calls') : calls'[c].idx > 0 => calls'[c].token = payload'.token
    ]_vars

C26_Witness ==
  /\ ctx = RequestContext
  /\ Len(handlerLog) = 3
  /\ handlerLog[1].injected /\ handlerLog[1].ctx = ctx
  /\ ~handlerLog[2].injected /\ handlerLog[2].ctx = ctx
  /\ handlerLog[3].ctx = ctx
  /\ pc = "responded"

\* the invocations of update_stage_checklist with a context without OPERATOR
UpdatesByNonOperator ==
  {h \in 1..Len(handlerLog) : /\ handlerLog[h].name = "update_stage_checklist"
                              /\ "OPERATOR" \notin handlerLog[h].ctx.roles}

\* C27: an invocation of update_stage_checklist whose context lacks OPERATOR
\* makes no call: its planned action has no PATCH, and the action ends in the
\* handler's error entry; and a request whose caller lacks OPERATOR sends no
\* checklist PATCH at all and has no injected update, whatever its plan and
\* whatever tasks are pending.
C27_UpdateRechecksOperator ==
  /\ \A h \in UpdatesByNonOperator :
       LET j == handlerLog[h].idx
       IN /\ PatchCallsOf(j) = {}
          /\ CallsOf(j) = {}
          /\ i > j
          /\ Cardinality(EntriesOf(j)) = 1
          /\ \A p \in EntriesOf(j) :
               results[p] = Entry("update_stage_checklist", "error",
                                  "Only operators can update stage checklists.", "")
  /\ (ctx # NoContext /\ "OPERATOR" \notin ctx.roles) =>
       /\ \A c \in 1..Len(calls) : calls[c].op # "PATCH checklist"
       /\ \A h \in 1..Len(handlerLog) : ~handlerLog[h].injected

C27_Witness ==
  /\ pc = "responded"
  /\ response.status = 200
  /\ "SUPERVISOR" \in ctx.roles
  /\ PlanLen = 2
  /\ agentPlan.actions[1].name = "update_stage_checklist"
  /\ UpdatesByNonOperator = {1}
  /\ agentPlan.actions[2].name = "complete_stage"
  /\ Len(fetched) = 1 /\ RequiredIncomplete(fetched[1].checklist) # {}
  /\ results[2].summary =
       "Checklist tasks are pending, but the current user is not an operator."

\* the phase of the pipeline a call belongs to
PhaseOf(call) ==
  CASE call.op = "GET /api/orders" /\ call.idx = 0 -> 1
    [] call.op = "GET /auth/me" -> 2
    [] call.op = "plan" -> 3
    [] call.op = "synthesis" -> 5
    [] OTHER -> 4

CallsInPhase(n) == {c \in 1..Len(calls) : PhaseOf(calls[c]) = n}

\* the calls that ask the workflow service to change something
Mutations ==
  {c \in 1..Len(calls) : calls[c].svc = "workflow" /\ calls[c].op \notin
     {"GET /api/orders", "GET /api/orders/:id"}}

\* C28: the calls of a request are made in the order of the pipeline: the
\* context fetch first, the identity fetch, at most one planning call, the
\* calls of the planned actions in plan order, at most one synthesis call,
\* last. A call of a planned action is made only after the one planning call
\* was answered and the plan parsed and validated; the synthesis call is made
\* only when the loop is over and every planned action has entries in the log;
\* a response with an answer had exactly one synthesis call.
C28_StrictPipeline ==
  /\ \A c, d \in 1..Len(calls) :
       c < d => /\ PhaseOf(calls[c]) <= PhaseOf(calls[d])
                /\ calls[c].idx <= calls[d].idx \/ calls[d].idx = 0
  /\ \A n \in {1, 2, 3, 5} : Cardinality(CallsInPhase(n)) <= 1
  /\ Len(calls) >= 1 => PhaseOf(calls[1]) = 1
  /\ \A c \in CallsInPhase(4) \cup Mutations :
       /\ calls[c].idx \in 1..PlanLen
       /\ agentPlan.present
       /\ planText.received /\ planText.parses /\ ~SchemaInvalid
       /\ \E q \in CallsInPhase(3) : q < c /\ answers[q] = "ok"
  /\ Executing => Cardinality(CallsInPhase(3)) = 1
  /\ \A c \in CallsInPhase(5) :
       /\ c = Len(calls)
       /\ \A d \in 1..(c - 1) : answers[d] = "ok" \/ PhaseOf(calls[d]) \in {1, 4}
       /\ agentPlan.present =>
            /\ i = PlanLen + 1 \/ PlanLen = 0
            /\ \A j \in 1..PlanLen : EntriesOf(j) # {}
            /\ actionResults = results
  /\ (pc = "responded" /\ response.status = 200) =>
       Cardinality(CallsInPhase(5)) = 1

C28_Witness ==
  /\ pc = "responded"
  /\ response.status = 200
  /\ PlanLen = 2
  /\ Cardinality(CallsInPhase(3)) = 1
  /\ Cardinality(CallsInPhase(4)) >= 4
  /\ Cardinality(Mutations) >= 3
  /\ Cardinality(CallsInPhase(5)) = 1

\* the planning reply held JSON that PlanSchema accepts
SchemaValid ==
  /\ planText.received
  /\ planText.fence \/ planText.braces
  /\ planText.parses
  /\ ~SchemaInvalid

\* C29: a schema-valid planning reply yields a plan, with the empty string for
\* an omitted intent and the empty sequence for omitted actions. With a plan
\* of no actions executePlan is not called: no handler runs, no call is made
\* for an action, the log stays empty, the synthesis call is made with the
\* statement that no action was executed, and unless that call fails the
\* response is the answer.
C29_PlanDefaults ==
  /\ SchemaValid =>
       /\ agentPlan.present
       /\ planText.intentKind = "undef" => agentPlan.intent = ""
       /\ planText.actionsKind = "undef" => agentPlan.actions = <<>>
       /\ planText.actionsKind = "array" => Len(agentPlan.actions) = Len(modelPlan)
  /\ (agentPlan.present /\ agentPlan.actions = <<>>) =>
       /\ ~Executing
       /\ handlerLog = <<>>
       /\ results = <<>> /\ actionResults = <<>>
       /\ CallsInPhase(4) = {}
       /\ SynthesisRequested
       /\ executionLog = << << "No autonomous actions were executed." >> >>
       /\ pc = "responded" =>
            IF answers[Len(answers)] = "ok"
              THEN response.status = 200 /\ response.answer # ""
              ELSE response.status = 502

C29_Witness ==
  /\ SchemaValid
  /\ planText.intentKind = "undef" /\ planText.actionsKind = "undef"
  /\ agentPlan = [present |-> TRUE, intent |-> "", actions |-> <<>>]
  /\ pc = "responded"
  /\ response.status = 200 /\ response.answer # ""

\* the rank of an order in the digest: its priority, 0 when it has none, then
\* the day it was created, 0 when it has no date
PriorityOf(order) == IF order.priority.t = "num" THEN order.priority.n ELSE 0
CreatedOf(order) ==
  IF order.createdAt.t = "str" THEN getTime(order.createdAt.s) ELSE 0

\* order a ranks strictly before order b
RanksBefore(a, b) ==
  \/ PriorityOf(a) > PriorityOf(b)
  \/ PriorityOf(a) = PriorityOf(b) /\ CreatedOf(a) > CreatedOf(b)

\* C30: the digest lists min(n, 10) of the n orders fetched, each once; no
\* listed order ranks strictly before one listed ahead of it, and no order
\* left out ranks strictly before a listed one, where an order ranks before
\* another when its priority (0 when missing) is higher or, with equal
\* priorities, its creation time is later.
C30_DigestTopByPriority ==
  digest.built =>
    LET limited == digest.limited
        listed == { limited[x].id : x \in 1..Len(limited) }
    IN /\ digest.total = Len(orders)
       /\ Len(limited) <= 10
       /\ Len(limited) = (IF Len(orders) < 10 THEN Len(orders) ELSE 10)
       /\ Cardinality(listed) = Len(limited)
       /\ \A x \in 1..Len(limited) : limited[x] = orders[limited[x].id]
       /\ \A x, y \in 1..Len(limited) : x < y => ~RanksBefore(limited[y], limited[x])
       /\ \A o \in 1..Len(orders) :
            o \notin listed => \A x \in 1..Len(limited) : ~RanksBefore(orders[o], limited[x])

C30_Witness ==
  /\ digest.built
  /\ Len(orders) = 11
  /\ Len(digest.limited) = 10
  /\ digest.limited[1] = orders[11]
  /\ orders[11].priority = JNum(1)
  /\ orders[10].priority = JNum(0 - 1)
  /\ \A x \in 1..10 : digest.limited[x].id # 10
  /\ \E x \in 1..10 : digest.limited[x].priority = JNull

\* the stage summaries of an order, stage by stage in the order of the
\* workflow (preparation, assembly, delivery)
StagesInWorkflowOrder(order) ==
  LET has(name) == \E y \in 1..Len(order.stages) : order.stages[y].stage = name
      stateOf(name) ==
        (CHOOSE y \in 1..Len(order.stages) : order.stages[y].stage = name)
      present == SelectSeq(STAGE_ORDER, has)
  IN IF present = <<>> THEN << "no recorded stages." >>
     ELSE [y \in 1..Len(present) |->
             toLowerCase(present[y]) \o ": "
               \o toLowerCase(order.stages[stateOf(present[y])].state)]

RoleChars(role) == IF role = "OPERATOR" THEN OperatorChars ELSE SupervisorChars

\* a role string of the profile is one the route knows: without the prefix
\* ROLE_ and in upper case it is OPERATOR or SUPERVISOR
Recognized(text) ==
  \E role \in Role : ToUpperCase(StripRolePrefix(text)) = RoleChars(role)

\* a set of roles as the list of strings the identity service would return
RoleListOf(roleSet) ==
  IF roleSet = {} THEN <<>>
  ELSE IF roleSet = {"OPERATOR"} THEN << OperatorChars >>
  ELSE IF roleSet = {"SUPERVISOR"} THEN << SupervisorChars >>
  ELSE << OperatorChars, SupervisorChars >>

\* C32: once the profile is known the effective role set is a subset of
\* {OPERATOR, SUPERVISOR} and holds a role exactly when some string of the
\* profile, stripped of ROLE_ and then upper-cased, spells it; a profile with
\* strings that spell neither does not end the request (the next call of
\* the pipeline is made); and normalizing the effective set again gives the
\* same set.
C32_RolesNormalized ==
  ProfileKnown =>
    /\ normalizedRoles \subseteq Role
    /\ \A role \in Role :
         role \in normalizedRoles <=>
           \E j \in 1..Len(userProfile.roles) :
             ToUpperCase(StripRolePrefix(userProfile.roles[j])) = RoleChars(role)
    /\ Len(calls) >= 3
    /\ pc = "responded" /\ response.status = 502 => HardFailure
    /\ normalizeRoles(RoleListOf(normalizedRoles)) = normalizedRoles

C32_Witness ==
  /\ ProfileKnown
  /\ Len(userProfile.roles) = 2
  /\ ~Recognized(userProfile.roles[1]) /\ ~Recognized(userProfile.roles[2])
  /\ normalizedRoles = {}
  /\ pc = "responded" /\ response.status = 200

\* positions a < b of the text bound a fenced block labelled json: the first
\* ```json and the first ``` after it
FencedBlock(text, a, b) ==
  /\ a \in 1..Len(text) /\ b \in (a + 1)..Len(text)
  /\ text[a] = "F" /\ \A c \in 1..(a - 1) : text[c] # "F"
  /\ text[b] \in {"F", "T"} /\ \A c \in (a + 1)..(b - 1) : text[c] \notin {"F", "T"}

\* positions a < b of the text hold its first '{' and its last '}'
BraceSpan(text, a, b) ==
  /\ a \in 1..Len(text) /\ b \in (a + 1)..Len(text)
  /\ text[a] = "{" /\ \A c \in 1..(a - 1) : text[c] # "{"
  /\ text[b] = "}" /\ \A c \in (b + 1)..Len(text) : text[c] # "}"

HasFencedBlock(text) == \E a, b \in 1..Len(text) : FencedBlock(text, a, b)

\* the fenced block, or the span of the braces, holds valid JSON
SomeSourceParses(text) ==
  \/ \E a, b \in 1..Len(text) :
        FencedBlock(text, a, b) /\ JsonParses(SubSeq(text, a + 1, b - 1))
  \/ \E a, b \in 1..Len(text) :
        BraceSpan(text, a, b) /\ JsonParses(SubSeq(text, a, b))

\* C33: for a text with a fenced json block the candidate is the content of
\* the block, without the blanks around it; for a text without one it is the
\* text from the first '{' to the last '}', and there is no candidate when
\* these are missing or out of order; generatePlan returns a plan only when
\* the candidate is valid JSON, so it fails whenever neither the block nor the
\* braces hold valid JSON, with the plan-parse error when there is no
\* candidate.
C33_JsonExtraction ==
  extraction.done =>
    LET text == extraction.text
    IN /\ \A a, b \in 1..Len(text) :
            FencedBlock(text, a, b) =>
              /\ extraction.found
              /\ extraction.candidate = Trim(SubSeq(text, a + 1, b - 1))
       /\ ~HasFencedBlock(text) =>
            /\ \A a, b \in 1..Len(text) :
                 BraceSpan(text, a, b) =>
                   extraction.found /\ extraction.candidate = SubSeq(text, a, b)
            /\ (~\E a, b \in 1..Len(text) : BraceSpan(text, a, b)) =>
                 ~extraction.found
       /\ ~extraction.found => extraction.outcome = "Agent plan was not valid JSON."
       /\ extraction.outcome = "plan" <=>
            extraction.found /\ JsonParses(extraction.candidate)
       /\ ~SomeSourceParses(text) => extraction.outcome # "plan"

C33_Witness ==
  /\ extraction.done
  /\ extraction.text = << "x", "F", "{", "}", "T" >>
  /\ extraction.candidate = << "{", "}" >>
  /\ extraction.outcome = "plan"

\* C34 (as claimed): the handler of an action whose allowed roles do not
\* intersect the roles of the caller issues no workflow call.
C34_HandlersRoleGuarded ==
  \A h \in 1..Len(handlerLog) :
    ActionRoles(handlerLog[h].name) \cap handlerLog[h].ctx.roles = {} =>
      \A c \in 1..Len(calls) :
        ~ /\ calls[c].svc = "workflow"
          /\ calls[c].idx = handlerLog[h].idx
          /\ calls[c].op = HandlerOp(handlerLog[h].name)

\* the calls the handler of `name` issued for planned action j
HandlerCallsOf(j, name) ==
  {c \in CallsOf(j) : calls[c].svc = "workflow" /\ calls[c].op = HandlerOp(name)}

\* C36: an entry of status success was returned by a handler that was invoked
\* for that planned action (by executePlan, or injected by the checklist
\* rule), that handler issued at least one call, and every call it issued was
\* answered with a successful response that could be read.
C36_SuccessOnlyAfterOkCalls ==
  \A p \in 1..Len(results) :
    results[p].status = "success" =>
      LET j == owner[p].idx
      IN /\ owner[p].src \in {"handler", "ensure"}
         /\ \E h \in InvocationsOf(j) :
              /\ handlerLog[h].name = results[p].name
              /\ handlerLog[h].injected = (owner[p].src = "ensure")
         /\ HandlerCallsOf(j, results[p].name) # {}
         /\ \A c \in HandlerCallsOf(j, results[p].name) :
              c <= Len(answers) /\ answers[c] = "ok"

\* an update of two tasks reported success after both PATCHes were answered,
\* next to an action whose call failed
C36_Witness ==
  /\ Returned
  /\ \E p, q \in 1..Len(results) :
       /\ results[p].status = "success"
       /\ results[p].name = "update_stage_checklist"
       /\ Cardinality(HandlerCallsOf(owner[p].idx, "update_stage_checklist")) = 2
       /\ results[q].status = "error"
       /\ owner[q].src = "catch"

\* the planned actions named complete_stage
Completions == {j \in 1..PlanLen : agentPlan.actions[j].name = "complete_stage"}

\* C37: when executePlan has returned for a plan of n actions of which c are
\* complete_stage, the log has between n and n + c entries: an action other
\* than complete_stage has exactly one entry and a complete_stage has one or
\* two.
C37_LogSize ==
  Returned =>
    /\ Len(results) >= PlanLen
    /\ Len(results) <= PlanLen + Cardinality(Completions)
    /\ \A p \in 1..Len(results) : owner[p].idx \in 1..PlanLen
    /\ \A j \in 1..PlanLen :
         IF j \in Completions
           THEN Cardinality(EntriesOf(j)) \in {1, 2}
           ELSE Cardinality(EntriesOf(j)) = 1

\* a plan of a completion with two entries and an action with one, and a plan
\* whose completion has one
C37_Witness ==
  /\ Returned
  /\ PlanLen = 2
  /\ Cardinality(Completions) = 1
  /\ Len(results) = 3
  /\ \E j \in Completions : Cardinality(EntriesOf(j)) = 2

\* the position of call c among the calls of P
RankIn(c, P) == Cardinality({d \in P : d <= c})

\* the checklist task `taskId` of `stage` in the workflow service
ServiceTask(stage, taskId) ==
  LET checklist == backend.checklists[stage]
  IN checklist[CHOOSE x \in 1..Len(checklist) : checklist[x].id = taskId]

\* a later PATCH of the same task of the same stage
Overwritten(c) ==
  \E d \in (c + 1)..Len(calls) :
    /\ calls[d].op = "PATCH checklist"
    /\ calls[d].stage = calls[c].stage
    /\ calls[d].taskId = calls[c].taskId

\* C38: when a PATCH of update_stage_checklist (planned or injected) was not
\* answered with success: it is the last call made for that planned action, so
\* the later tasks are never sent and a gated completion is neither invoked
\* nor sent; the PATCHes before it were those of the earlier tasks, in order,
\* all answered with success, and what they set is still set in the service
\* unless a later update of the plan set the same task again; and the planned
\* action ends with exactly one entry, the error of the update.
C38_PartialChecklistUpdate ==
  \A j \in 1..PlanLen : \A c \in PatchCallsOf(j) :
    (c <= Len(answers) /\ answers[c] # "ok") =>
      /\ \A d \in CallsOf(j) : d <= c
      /\ \A h \in InvocationsOf(j) :
           /\ handlerLog[h].name = "update_stage_checklist"
           /\ \A d \in PatchCallsOf(j) :
                /\ RankIn(d, PatchCallsOf(j)) <= Len(handlerLog[h].args["tasks"].a)
                /\ calls[d].taskId =
                     handlerLog[h].args["tasks"].a[RankIn(d, PatchCallsOf(j))].taskId.s
      /\ \A d \in PatchCallsOf(j) :
           d < c =>
             /\ answers[d] = "ok"
             /\ ~Overwritten(d) =>
                  ServiceTask(calls[d].stage, calls[d].taskId).completed
                    = calls[d].completed
      /\ CompletionInvocationsOf(j) = {}
      /\ CompleteCallsOf(j) = {}
      /\ i > j
      /\ Cardinality(EntriesOf(j)) = 1
      /\ \A p \in EntriesOf(j) :
           /\ results[p].name = "update_stage_checklist"
           /\ results[p].status = "error"
           /\ owner[p].src = (IF InjectedOf(j) # {} THEN "ensure" ELSE "catch")

\* the injected update of two tasks failed at the second: the first is
\* completed in the service, the second is not, and executePlan has returned
C38_Witness ==
  /\ Returned
  /\ \E j \in 1..PlanLen :
       /\ InjectedOf(j) # {}
       /\ Cardinality(PatchCallsOf(j)) = 2
       /\ \E c, d \in PatchCallsOf(j) :
            /\ d < c
            /\ answers[c] \in {"error", "thrown"}
            /\ ServiceTask(calls[d].stage, calls[d].taskId).completed
            /\ ~ServiceTask(calls[c].stage, calls[c].taskId).completed

\* the completions whose order fetch was answered with an order that has no
\* status for the target stage
StageMissingOf ==
  {j \in Completions :
     /\ ValidArguments(j)
     /\ agentPlan.actions[j].arguments["stage"].s \notin DOMAIN backend.checklists
     /\ \E c \in CallsOf(j) :
          /\ calls[c].op = "GET /api/orders/:id"
          /\ c <= Len(answers)
          /\ answers[c] = "ok"}

\* C39: a complete_stage whose fetched order has no status for the target
\* stage gets exactly one entry, an error named complete_stage; only the
\* order fetch was sent for it, so no checklist update and no completion; no
\* handler was invoked for it; and the loop has moved on, so that the next
\* planned action is executed: once executePlan has returned, every later
\* planned action has an entry.
C39_StageMissing ==
  \A j \in StageMissingOf :
    /\ i > j
    /\ Cardinality(EntriesOf(j)) = 1
    /\ \A p \in EntriesOf(j) :
         /\ results[p] = Entry("complete_stage", "error",
                               "Stage was not found on order.", "")
         /\ owner[p].src = "ensure"
    /\ Cardinality(CallsOf(j)) = 1
    /\ PatchCallsOf(j) = {}
    /\ CompleteCallsOf(j) = {}
    /\ InvocationsOf(j) = {}
    /\ Returned => \A n \in (j + 1)..PlanLen : EntriesOf(n) # {}

\* the stage was missing for the first planned action, and the handler of the
\* second was invoked and has returned
C39_Witness ==
  /\ Returned
  /\ PlanLen = 2
  /\ 1 \in StageMissingOf
  /\ InvocationsOf(2) # {}
  /\ CallsOf(2) # {}
  /\ \E p \in EntriesOf(2) : results[p].status = "success"

(***************************************************************************)
(* A request on an order that other clients of the workflow service work   *)
(* on at the same time.                                                    *)
(***************************************************************************)
InitGate ==
  /\ InitRequest
  /\ payload \in {ServerPayloads[1], ServerPayloads[2]}
  /\ configured = TRUE
  /\ parked = NoRequest
  /\ orders = <<>>
  /\ digest = NoDigest
  /\ extraction = NoExtraction
  /\ auth = NoAuth
  /\ backend \in [ checklists : [PREPARATION : Checklists, ASSEMBLY : {<<>>}],
                    completed : {{}}, shared : {TRUE} ]

SpecGate == InitGate /\ [][Next]_vars

\* the step issues the completion call
IssuesCompletion ==
  /\ Len(calls') = Len(calls) + 1
  /\ calls'[Len(calls')].op = "POST complete"

\* C35 (as claimed): whenever the completion call is issued, every required
\* task of the target stage is completed in the workflow service at that
\* moment.
C35_GateAtCompletion ==
  [][IssuesCompletion =>
       RequiredIncomplete(backend'.checklists[calls'[Len(calls')].stage]) = {}]_vars

(***************************************************************************)
(* AuthProvider (StageBadge.tsx 66-227): the sessions of the browser.      *)
(* auth.sessions and auth.activeUsername are the state with every queued   *)
(* update applied; auth.seen is the state of the last render, which is     *)
(* what the callbacks switchAccount and logout read and what the context   *)
(* value is computed from; auth.settled says that the last render saw the  *)
(* current state and its effect changed nothing. The empty sequence stands *)
(* for null.                                                               *)
(***************************************************************************)
Accounts == { <<"a">>, <<"b">> }
TypedNames == Accounts \cup { <<" ", "a">> }
Passwords == { <<"p">> }

\* btoa(`${username}:${password}`)
Encode(username, password) == username \o <<":">> \o password

\* the profile WorkflowApi.me answers with
ProfileOf(username) ==
  [ username |-> username,
    roles |-> IF username = <<"a">> THEN <<"OPERATOR">> ELSE <<"SUPERVISOR">> ]

NoUser == [username |-> <<>>, roles |-> <<>>]
NoToken == <<>>

\* sessions.find((session) => session.username === username) found one
Listed(list, username) == \E x \in 1..Len(list) : list[x].username = username

FindSession(list, username) ==
  list[CHOOSE x \in 1..Len(list) :
         /\ list[x].username = username
         /\ \A y \in 1..(x - 1) : list[y].username # username]

Without(list, username) == SelectSeq(list, LAMBDA session : session.username # username)

\* the context value of a render: user and token of activeSession
UserOf(view) ==
  IF view.activeUsername # <<>> /\ Listed(view.sessions, view.activeUsername)
    THEN [ username |-> FindSession(view.sessions, view.activeUsername).username,
           roles |-> FindSession(view.sessions, view.activeUsername).roles ]
    ELSE NoUser

TokenOf(view) ==
  IF view.activeUsername # <<>> /\ Listed(view.sessions, view.activeUsername)
    THEN FindSession(view.sessions, view.activeUsername).token
    ELSE NoToken

\* persistLogin without the filter on prev
persistLoginKeepingOld(profile, token) ==
  [ auth EXCEPT
      !.sessions = << [username |-> profile.username, roles |-> profile.roles,
                       token |-> token] >> \o auth.sessions,
      !.activeUsername = profile.username,
      !.settled = FALSE,
      !.lastOp = "persistLogin" ]

\* persistLogin: the functional update of sessions, then setActiveUsername
persistLogin(profile, token) ==
  [ auth EXCEPT
      !.sessions = << [username |-> profile.username, roles |-> profile.roles,
                       token |-> token] >> \o Without(auth.sessions, profile.username),
      !.activeUsername = profile.username,
      !.settled = FALSE,
      !.lastOp = "persistLogin" ]

\* what no step of the session store changes
requestVars ==
  << pc, payload, postVars, execVars, response, inflight, backend, calls, answers,
     configured, cancelled, parked, digestVars, extraction >>

RemoveAt(q, x) == SubSeq(q, 1, x - 1) \o SubSeq(q, x + 1, Len(q))

\* the first effect
AuthMount ==
  /\ ~auth.mounted
  /\ auth' = [auth EXCEPT !.mounted = TRUE]
  /\ UNCHANGED requestVars

\* login up to its await of WorkflowApi.me
AuthLogin ==
  /\ auth.mounted
  /\ Len(auth.pending) < MaxPending
  /\ \E username \in TypedNames, password \in Passwords :
       auth' = [ auth EXCEPT
                   !.pending = Append(@, [kind |-> "me",
                                          token |-> Encode(username, password)]),
                   !.lastOp = "login" ]
  /\ UNCHANGED requestVars

\* signUp up to its await of WorkflowApi.signUp
AuthSignUp ==
  /\ auth.mounted
  /\ Len(auth.pending) < MaxPending
  /\ \E username \in TypedNames, password \in Passwords :
       auth' = [ auth EXCEPT
                   !.pending = Append(@, [kind |-> "signUp",
                                          token |-> Encode(Trim(username), password)]),
                   !.lastOp = "signUp" ]
  /\ UNCHANGED requestVars

\* signUp from the answer of WorkflowApi.signUp on: the catch, or the await
\* of WorkflowApi.me
SignUpReturn ==
  /\ \E x \in 1..Len(auth.pending) :
       /\ auth.pending[x].kind = "signUp"
       /\ \/ auth' = [auth EXCEPT !.pending = RemoveAt(@, x)]
          \/ auth' = [auth EXCEPT !.pending[x].kind = "me"]
  /\ UNCHANGED requestVars

\* login and signUp from the answer of WorkflowApi.me on: the catch, or
\* persistLogin with the profile the service answered
MeReturn ==
  /\ \E x \in 1..Len(auth.pending) :
       /\ auth.pending[x].kind = "me"
       /\ \/ auth' = [auth EXCEPT !.pending = RemoveAt(@, x)]
          \/ \E username \in Accounts :
               auth' = [ persistLogin(ProfileOf(username), auth.pending[x].token)
                           EXCEPT !.pending = RemoveAt(@, x) ]
  /\ UNCHANGED requestVars

\* switchAccount(username), on the sessions of the render it was made in
SwitchAccount ==
  /\ auth.mounted
  /\ \E username \in Accounts :
       IF ~Listed(auth.seen.sessions, username)
         THEN auth' = [auth EXCEPT !.lastOp = "switchAccount"]
         ELSE auth' =
                [ auth EXCEPT
                    !.sessions = << FindSession(auth.seen.sessions, username) >>
                                   \o Without(auth.seen.sessions, username),
                    !.activeUsername = username,
                    !.settled = FALSE,
                    !.lastOp = "switchAccount" ]
  /\ UNCHANGED requestVars

\* logout(username?), on the sessions and the active username of the render
\* it was made in
Logout ==
  /\ auth.mounted
  /\ \E given \in BOOLEAN, username \in Accounts :
       LET targetUsername == IF given THEN username ELSE auth.seen.activeUsername
           filtered == Without(auth.seen.sessions, targetUsername)
           nextActive ==
             IF targetUsername = auth.seen.activeUsername
               THEN IF filtered # <<>> THEN filtered[1].username ELSE <<>>
               ELSE IF Listed(auth.seen.sessions, auth.seen.activeUsername)
                      THEN auth.seen.activeUsername
                      ELSE <<>>
       IN IF targetUsername = <<>> \/ Len(filtered) = Len(auth.seen.sessions)
            THEN auth' = [auth EXCEPT !.lastOp = "logout"]
            ELSE auth' = [ auth EXCEPT !.sessions = filtered,
                                       !.activeUsername = nextActive,
                                       !.settled = FALSE,
                                       !.lastOp = "logout" ]
  /\ UNCHANGED requestVars

\* logoutAll
LogoutAll ==
  /\ auth.mounted
  /\ auth' = [ auth EXCEPT !.sessions = <<>>, !.activeUsername = <<>>,
                            !.settled = FALSE, !.lastOp = "logoutAll" ]
  /\ UNCHANGED requestVars

\* a render with the queued updates applied, and the effect on
\* [sessions, activeUsername] after it
AuthRender ==
  /\ auth.mounted
  /\ ~auth.settled
  /\ LET view == [sessions |-> auth.sessions, activeUsername |-> auth.activeUsername]
     IN IF /\ view.sessions # <<>>
           /\ ~(view.activeUsername # <<>> /\ Listed(view.sessions, view.activeUsername))
          THEN auth' = [ auth EXCEPT !.seen = view,
                                     !.activeUsername = view.sessions[1].username ]
          ELSE auth' = [auth EXCEPT !.seen = view, !.settled = TRUE]
  /\ UNCHANGED requestVars

InitAuth ==
  /\ InitRequest
  /\ payload = ServerPayloads[1]
  /\ configured = TRUE
  /\ parked = NoRequest
  /\ backend = [ checklists |-> [PREPARATION |-> ServerChecklist, ASSEMBLY |-> <<>>],
                 completed |-> {}, shared |-> FALSE ]
  /\ orders = <<>>
  /\ digest = NoDigest
  /\ extraction = NoExtraction
  /\ auth = NoAuth

NextAuth ==
  \/ AuthMount
  \/ AuthLogin
  \/ AuthSignUp
  \/ SignUpReturn
  \/ MeReturn
  \/ SwitchAccount
  \/ Logout
  \/ LogoutAll
  \/ AuthRender

SpecAuth == InitAuth /\ [][NextAuth]_vars

\* no two sessions of the list have the same username
OnePerUsername(list) ==
  \A x, y \in 1..Len(list) : x # y => list[x].username # list[y].username

\* C40: the session list never holds two sessions of one username, in the
\* state and in every render; once the effects have settled, the render shows
\* the current state, and its user and token are those of the one listed
\* session whose username is the active one, or both are absent, which then
\* happens only with an empty list; and logoutAll leaves no session and no
\* active username, and the render that settles on what it left shows no
\* session, no user and no token. auth.lastOp is the last callback that ran,
\* persistLogin for a login or sign-up whose profile has arrived.
C40_SessionStore ==
  /\ OnePerUsername(auth.sessions)
  /\ OnePerUsername(auth.seen.sessions)
  /\ auth.settled =>
       /\ auth.seen = [sessions |-> auth.sessions,
                       activeUsername |-> auth.activeUsername]
       /\ IF Listed(auth.sessions, auth.activeUsername)
            THEN \E x \in 1..Len(auth.sessions) :
                   /\ auth.sessions[x].username = auth.activeUsername
                   /\ UserOf(auth.seen) = [username |-> auth.sessions[x].username,
                                           roles |-> auth.sessions[x].roles]
                   /\ TokenOf(auth.seen) = auth.sessions[x].token
                   /\ TokenOf(auth.seen) # NoToken
            ELSE /\ UserOf(auth.seen) = NoUser
                 /\ TokenOf(auth.seen) = NoToken
                 /\ auth.sessions = <<>>
  /\ auth.lastOp = "logoutAll" =>
       /\ auth.sessions = <<>>
       /\ auth.activeUsername = <<>>
       /\ auth.settled =>
            /\ auth.seen.sessions = <<>>
            /\ UserOf(auth.seen) = NoUser
            /\ TokenOf(auth.seen) = NoToken

\* two accounts are listed, one of them logged in again with another token
\* and then switched away from; the render has settled on the other
C40_Witness ==
  /\ auth.settled
  /\ auth.lastOp = "switchAccount"
  /\ Len(auth.sessions) = 2
  /\ auth.sessions[2].token = Encode(<<" ", "a">>, <<"p">>)
  /\ UserOf(auth.seen) = ProfileOf(<<"b">>)
  /\ TokenOf(auth.seen) = auth.sessions[1].token

====
